---- MODULE Spec2Model ----
(***************************************************************************)
(* Conversation orchestration engine of the IT help desk voice bot:        *)
(* the conversation state machine (state.ts), the ConversationManager,     *)
(* the validators, the ToolExecutor and the VoiceAgent turn processor.     *)
(*                                                                         *)
(* Strings are sequences of one-character strings, so that trimming,       *)
(* lower-casing, length checks and the regular expressions of              *)
(* validation.ts are computed on the characters.  An absent (undefined)    *)
(* field is the value Undefined.                                           *)
(***************************************************************************)
EXTENDS Integers, Sequences, FiniteSets, TLC

\* ------------------------------------------------------------------------
\* Bounds of the model
\* ------------------------------------------------------------------------
NumCallers == 2
MaxTurns == 2
MaxToolCalls == 1

\* ------------------------------------------------------------------------
\* Characters and strings
\* ------------------------------------------------------------------------
Undefined == <<"undefined">>

LowerLetters ==
  <<"a","b","c","d","e","f","g","h","i","j","k","l","m",
    "n","o","p","q","r","s","t","u","v","w","x","y","z">>
UpperLetters ==
  <<"A","B","C","D","E","F","G","H","I","J","K","L","M",
    "N","O","P","Q","R","S","T","U","V","W","X","Y","Z">>
DigitChars == <<"0","1","2","3","4","5","6","7","8","9">>

Range(f) == { f[i] : i \in DOMAIN f }

IsLetter(ch) == ch \in Range(LowerLetters) \cup Range(UpperLetters)
IsDigit(ch) == ch \in Range(DigitChars)
IsSpace(ch) == ch \in {" "}

ToLowerChar(ch) ==
  IF ch \in Range(UpperLetters)
    THEN LowerLetters[CHOOSE i \in DOMAIN UpperLetters : UpperLetters[i] = ch]
    ELSE ch

\* String.prototype.toLowerCase
ToLower(s) == [i \in DOMAIN s |-> ToLowerChar(s[i])]

\* String.prototype.trim
Trim(s) ==
  LET nonSpace == { i \in DOMAIN s : ~IsSpace(s[i]) }
  IN IF nonSpace = {} THEN <<>>
     ELSE LET lo == CHOOSE i \in nonSpace : \A j \in nonSpace : i <= j
              hi == CHOOSE i \in nonSpace : \A j \in nonSpace : j <= i
          IN SubSeq(s, lo, hi)

\* s.replace(/\D/g, '')
DigitsOnly(s) == SelectSeq(s, IsDigit)

\* JavaScript truthiness of an optional string field
Truthy(v) == v # Undefined /\ v # <<>>

\* A value computed once and named in the rest of the expression
Let(v, In(_)) == CHOOSE result \in { In(x) : x \in {v} } : TRUE

\* ------------------------------------------------------------------------
\* validation.ts
\* ------------------------------------------------------------------------
IsEmailLocalChar(ch) == IsLetter(ch) \/ IsDigit(ch) \/ ch \in {".","_","%","+","-"}
IsEmailDomainChar(ch) == IsLetter(ch) \/ IsDigit(ch) \/ ch \in {".","-"}

\* s[i..j] matches [a-zA-Z0-9._%+-]+@[a-zA-Z0-9.-]+\.[a-zA-Z]{2,}
EmailMatch(s, i, j) ==
  /\ 1 <= i /\ i <= j /\ j <= Len(s)
  /\ \E at \in i+1..j-1 : \E dot \in at+2..j-2 :
       /\ s[at] = "@"
       /\ s[dot] = "."
       /\ \A k \in i..at-1 : IsEmailLocalChar(s[k])
       /\ \A k \in at+1..dot-1 : IsEmailDomainChar(s[k])
       /\ \A k \in dot+1..j : IsLetter(s[k])

\* /^...$/.test(s)
EmailRegexTest(s) == EmailMatch(s, 1, Len(s))

ErrEmail == "Invalid email format. Please provide a valid email address like user@example.com"
ErrPhone == "Invalid phone number. Please provide a valid phone number with 10-15 digits"
ErrAddressShort == "Address is too short. Please provide a complete address with street, city, and state"
ErrAddressLong == "Address is too long. Please provide a concise address"
ErrNameShort == "Name is too short. Please provide your full name"
ErrNameLong == "Name is too long"
ErrNameAlpha == "Name must contain alphabetic characters"
ErrIssueShort == "Issue description is too short. Please describe your problem in more detail"
ErrIssueLong == "Issue description is too long. Please provide a concise description"

Valid(v) == [isValid |-> TRUE, sanitized |-> v]
Invalid(e) == [isValid |-> FALSE, error |-> e]

validateEmail(email) ==
  LET trimmed == ToLower(Trim(email))
  IN IF ~EmailRegexTest(trimmed) THEN Invalid(ErrEmail) ELSE Valid(trimmed)

\* validatePhone without the upper limit
validatePhoneNoMax(phone) ==
  LET digitsOnly == DigitsOnly(phone)
  IN IF Len(digitsOnly) < 10
       THEN Invalid(ErrPhone)
       ELSE IF Len(digitsOnly) = 10
              THEN Valid(<<"(">> \o SubSeq(digitsOnly, 1, 3) \o <<")", " ">>
                         \o SubSeq(digitsOnly, 4, 6) \o <<"-">> \o SubSeq(digitsOnly, 7, 10))
              ELSE Valid(Trim(phone))

validatePhone(phone) ==
  LET digitsOnly == DigitsOnly(phone)
  IN IF Len(digitsOnly) < 10 \/ Len(digitsOnly) > 15
       THEN Invalid(ErrPhone)
       ELSE IF Len(digitsOnly) = 10
              THEN Valid(<<"(">> \o SubSeq(digitsOnly, 1, 3) \o <<")", " ">>
                         \o SubSeq(digitsOnly, 4, 6) \o <<"-">> \o SubSeq(digitsOnly, 7, 10))
              ELSE Valid(Trim(phone))

validateAddress(address) ==
  LET trimmed == Trim(address)
  IN IF Len(trimmed) < 10 THEN Invalid(ErrAddressShort)
     ELSE IF Len(trimmed) > 500 THEN Invalid(ErrAddressLong)
     ELSE Valid(trimmed)

validateName(name) ==
  LET trimmed == Trim(name)
  IN IF Len(trimmed) < 2 THEN Invalid(ErrNameShort)
     ELSE IF Len(trimmed) > 100 THEN Invalid(ErrNameLong)
     ELSE IF ~(\E i \in 1..Len(trimmed)-1 : IsLetter(trimmed[i]) /\ IsLetter(trimmed[i+1]))
       THEN Invalid(ErrNameAlpha)
     ELSE Valid(trimmed)

validateIssue(issue) ==
  LET trimmed == Trim(issue)
  IN IF Len(trimmed) < 5 THEN Invalid(ErrIssueShort)
     ELSE IF Len(trimmed) > 1000 THEN Invalid(ErrIssueLong)
     ELSE Valid(trimmed)

\* The character at position k, or the empty string past either end
At(s, k) == IF k \in DOMAIN s THEN s[k] ELSE ""

\* text.match(/[a-zA-Z0-9._%+-]+@[a-zA-Z0-9.-]+\.[a-zA-Z]{2,}/): the leftmost
\* match, each quantifier greedy, lower-cased; Undefined stands for null
extractEmail(text) ==
  LET starts == { i \in DOMAIN text : \E j \in DOMAIN text : EmailMatch(text, i, j) }
  IN IF starts = {} THEN Undefined
     ELSE LET i == CHOOSE a \in starts : \A b \in starts : a <= b
              ends == { j \in DOMAIN text : EmailMatch(text, i, j) }
              j == CHOOSE a \in ends : \A b \in ends : b <= a
          IN ToLower(SubSeq(text, i, j))

IsPhoneSep(ch) == ch \in {"-", ".", " "}

\* The ways the optional parts of
\* /(\+?1[-.\s]?)?\(?\d{3}\)?[-.\s]?\d{3}[-.\s]?\d{4}/ can be taken
PhoneParses ==
  { b \in [g : {0,1}, plus : {0,1}, psep : {0,1}, open : {0,1},
           close : {0,1}, sep1 : {0,1}, sep2 : {0,1}] :
      b.g = 0 => (b.plus = 0 /\ b.psep = 0) }

\* Backtracking order: an optional part is tried present before absent, and
\* an earlier choice outranks a later one
PhoneParseRank(b) ==
  64 * b.g + 32 * b.plus + 16 * b.psep + 8 * b.open + 4 * b.close + 2 * b.sep1 + b.sep2

\* The end of the match of parse b starting at i, or 0 if b does not match
PhoneParseEnd(s, i, b) ==
  LET p1 == i + b.plus
      p2 == p1 + b.g
      p3 == p2 + b.psep
      p4 == p3 + b.open
      p5 == p4 + 3
      p6 == p5 + b.close
      p7 == p6 + b.sep1
      p8 == p7 + 3
      p9 == p8 + b.sep2
      ok == /\ (b.plus = 1 => At(s, i) = "+")
            /\ (b.g = 1 => At(s, p1) = "1")
            /\ (b.psep = 1 => IsPhoneSep(At(s, p2)))
            /\ (b.open = 1 => At(s, p3) = "(")
            /\ \A k \in p4..p4+2 : IsDigit(At(s, k))
            /\ (b.close = 1 => At(s, p5) = ")")
            /\ (b.sep1 = 1 => IsPhoneSep(At(s, p6)))
            /\ \A k \in p7..p7+2 : IsDigit(At(s, k))
            /\ (b.sep2 = 1 => IsPhoneSep(At(s, p8)))
            /\ \A k \in p9..p9+3 : IsDigit(At(s, k))
  IN IF ok THEN p9 + 3 ELSE 0

extractPhone(text) ==
  LET starts == { i \in DOMAIN text : \E b \in PhoneParses : PhoneParseEnd(text, i, b) > 0 }
  IN IF starts = {} THEN Undefined
     ELSE LET i == CHOOSE a \in starts : \A b \in starts : a <= b
              ok == { b \in PhoneParses : PhoneParseEnd(text, i, b) > 0 }
              best == CHOOSE b \in ok : \A c \in ok : PhoneParseRank(c) <= PhoneParseRank(b)
          IN SubSeq(text, i, PhoneParseEnd(text, i, best))

\* ------------------------------------------------------------------------
\* state.ts: the conversation state machine
\* ------------------------------------------------------------------------
ConversationState ==
  { "GREETING", "COLLECTING_NAME", "COLLECTING_EMAIL", "COLLECTING_PHONE",
    "COLLECTING_ADDRESS", "COLLECTING_ISSUE", "CONFIRMING_DETAILS",
    "TICKET_CREATION", "CONFIRMATION", "ERROR_RECOVERY", "ENDED" }

\* The table with a way out of ENDED
validTransitionsRestart ==
  [ GREETING |-> << "COLLECTING_NAME", "COLLECTING_EMAIL", "ERROR_RECOVERY" >>,
    COLLECTING_NAME |-> << "COLLECTING_EMAIL", "ERROR_RECOVERY", "GREETING" >>,
    COLLECTING_EMAIL |-> << "COLLECTING_PHONE", "ERROR_RECOVERY", "COLLECTING_NAME" >>,
    COLLECTING_PHONE |-> << "COLLECTING_ADDRESS", "ERROR_RECOVERY", "COLLECTING_EMAIL" >>,
    COLLECTING_ADDRESS |-> << "COLLECTING_ISSUE", "ERROR_RECOVERY", "COLLECTING_PHONE" >>,
    COLLECTING_ISSUE |-> << "CONFIRMING_DETAILS", "ERROR_RECOVERY", "COLLECTING_ADDRESS" >>,
    CONFIRMING_DETAILS |-> << "TICKET_CREATION", "COLLECTING_NAME", "COLLECTING_EMAIL",
                              "COLLECTING_PHONE", "COLLECTING_ADDRESS", "COLLECTING_ISSUE",
                              "ERROR_RECOVERY" >>,
    TICKET_CREATION |-> << "CONFIRMATION", "ERROR_RECOVERY" >>,
    CONFIRMATION |-> << "ENDED" >>,
    ERROR_RECOVERY |-> << "GREETING", "COLLECTING_NAME", "COLLECTING_EMAIL",
                          "COLLECTING_PHONE", "COLLECTING_ADDRESS", "COLLECTING_ISSUE",
                          "CONFIRMING_DETAILS", "ENDED" >>,
    ENDED |-> << "GREETING" >> ]

validTransitions ==
  [ GREETING |-> << "COLLECTING_NAME", "COLLECTING_EMAIL", "ERROR_RECOVERY" >>,
    COLLECTING_NAME |-> << "COLLECTING_EMAIL", "ERROR_RECOVERY", "GREETING" >>,
    COLLECTING_EMAIL |-> << "COLLECTING_PHONE", "ERROR_RECOVERY", "COLLECTING_NAME" >>,
    COLLECTING_PHONE |-> << "COLLECTING_ADDRESS", "ERROR_RECOVERY", "COLLECTING_EMAIL" >>,
    COLLECTING_ADDRESS |-> << "COLLECTING_ISSUE", "ERROR_RECOVERY", "COLLECTING_PHONE" >>,
    COLLECTING_ISSUE |-> << "CONFIRMING_DETAILS", "ERROR_RECOVERY", "COLLECTING_ADDRESS" >>,
    CONFIRMING_DETAILS |-> << "TICKET_CREATION", "COLLECTING_NAME", "COLLECTING_EMAIL",
                              "COLLECTING_PHONE", "COLLECTING_ADDRESS", "COLLECTING_ISSUE",
                              "ERROR_RECOVERY" >>,
    TICKET_CREATION |-> << "CONFIRMATION", "ERROR_RECOVERY" >>,
    CONFIRMATION |-> << "ENDED" >>,
    ERROR_RECOVERY |-> << "GREETING", "COLLECTING_NAME", "COLLECTING_EMAIL",
                          "COLLECTING_PHONE", "COLLECTING_ADDRESS", "COLLECTING_ISSUE",
                          "CONFIRMING_DETAILS", "ENDED" >>,
    ENDED |-> << >> ]

\* isValidTransition without the test of the target
isValidTransitionAnyTarget(fromState, toState) ==
  fromState \in DOMAIN validTransitions /\ Len(validTransitions[fromState]) > 0

isValidTransition(fromState, toState) ==
  IF fromState \in DOMAIN validTransitions
    THEN toState \in Range(validTransitions[fromState])
    ELSE FALSE

\* NoState stands for null
NoState == "null"

\* getNextState taking the last entry of the row
getNextStateLast(currentState) ==
  IF currentState \in DOMAIN validTransitions /\ Len(validTransitions[currentState]) > 0
    THEN validTransitions[currentState][Len(validTransitions[currentState])]
    ELSE NoState

getNextState(currentState) ==
  IF currentState \in DOMAIN validTransitions /\ Len(validTransitions[currentState]) > 0
    THEN validTransitions[currentState][1]
    ELSE NoState

\* An absent price is NoPrice; every price the code stores is >= 0
NoPrice == -1

\* isDataComplete testing the price for truthiness
isDataCompleteTruthyPrice(context) ==
  /\ Truthy(context.name)
  /\ Truthy(context.email)
  /\ Truthy(context.phone)
  /\ Truthy(context.address)
  /\ Truthy(context.issue)
  /\ Truthy(context.issueType)
  /\ context.price # NoPrice /\ context.price # 0

isDataComplete(context) ==
  /\ Truthy(context.name)
  /\ Truthy(context.email)
  /\ Truthy(context.phone)
  /\ Truthy(context.address)
  /\ Truthy(context.issue)
  /\ Truthy(context.issueType)
  /\ context.price # NoPrice

\* getMissingFields testing the issue first
getMissingFieldsIssueFirst(context) ==
  (IF ~Truthy(context.issue) THEN <<"issue description">> ELSE <<>>)
  \o (IF ~Truthy(context.name) THEN <<"name">> ELSE <<>>)
  \o (IF ~Truthy(context.email) THEN <<"email">> ELSE <<>>)
  \o (IF ~Truthy(context.phone) THEN <<"phone">> ELSE <<>>)
  \o (IF ~Truthy(context.address) THEN <<"address">> ELSE <<>>)

getMissingFields(context) ==
  (IF ~Truthy(context.name) THEN <<"name">> ELSE <<>>)
  \o (IF ~Truthy(context.email) THEN <<"email">> ELSE <<>>)
  \o (IF ~Truthy(context.phone) THEN <<"phone">> ELSE <<>>)
  \o (IF ~Truthy(context.address) THEN <<"address">> ELSE <<>>)
  \o (IF ~Truthy(context.issue) THEN <<"issue description">> ELSE <<>>)

\* ------------------------------------------------------------------------
\* ConversationManager.ts.  An operation that can throw returns
\* [threw, context]; the wall-clock fields startedAt and lastUpdatedAt are
\* not part of the model.
\* ------------------------------------------------------------------------
SessionId == <<"s","1">>

\* new ConversationManager()
NewContext ==
  [ state |-> "GREETING", sessionId |-> SessionId,
    name |-> Undefined, email |-> Undefined, phone |-> Undefined,
    address |-> Undefined, issue |-> Undefined, issueType |-> Undefined,
    price |-> NoPrice, ticketId |-> Undefined, ticketNumber |-> Undefined,
    retryCount |-> 0, lastError |-> Undefined, turnCount |-> 0 ]

Returned(context) == [threw |-> FALSE, context |-> context]
Threw(context) == [threw |-> TRUE, context |-> context]

transitionTo(context, newState) ==
  IF ~isValidTransition(context.state, newState)
    THEN Threw(context)
    ELSE Returned([context EXCEPT !.state = newState, !.turnCount = @ + 1])

\* advanceToNextState without the test of its successor
advanceToNextStateUnchecked(context) ==
  transitionTo(context, getNextState(context.state))

advanceToNextState(context) ==
  LET nextState == getNextState(context.state)
  IN IF nextState # NoState THEN transitionTo(context, nextState) ELSE Returned(context)

updateField(context, field, value) == [context EXCEPT ![field] = value]

incrementRetry(context) == [context EXCEPT !.retryCount = @ + 1]

resetRetry(context) == [context EXCEPT !.retryCount = 0]

handleError(context, error) ==
  transitionTo([context EXCEPT !.lastError = error], "ERROR_RECOVERY")

end(context) == transitionTo(context, "ENDED")

\* ------------------------------------------------------------------------
\* The service catalog as seeded (prisma seed), in the order
\* ServiceCatalogRepository.getAllServices returns it: isActive, price ascending
\* ------------------------------------------------------------------------
Svc_printer_problems ==
  [ issueType |-> <<"p","r","i","n","t","e","r","_","p","r","o","b","l","e","m","s">>,
    description |-> <<"P","r","i","n","t","e","r"," ","p","r","o","b","l","e","m","s">>,
    price |-> 10,
    keywords |-> <<
      <<"p","r","i","n","t","e","r">>,
      <<"p","r","i","n","t">>,
      <<"p","r","i","n","t","i","n","g">>,
      <<"c","a","n","t"," ","p","r","i","n","t">>,
      <<"p","a","p","e","r"," ","j","a","m">>,
      <<"t","o","n","e","r">>,
      <<"i","n","k">>,
      <<"s","c","a","n","n","e","r">>,
      <<"c","o","p","i","e","r">> >> ]
Svc_email_login_issues ==
  [ issueType |-> <<"e","m","a","i","l","_","l","o","g","i","n","_","i","s","s","u","e","s">>,
    description |-> <<"E","m","a","i","l"," ","l","o","g","i","n"," ","i","s","s","u","e","s">>,
    price |-> 15,
    keywords |-> <<
      <<"e","m","a","i","l">>,
      <<"l","o","g","i","n">>,
      <<"p","a","s","s","w","o","r","d">>,
      <<"o","u","t","l","o","o","k">>,
      <<"g","m","a","i","l">>,
      <<"c","a","n","t"," ","l","o","g","i","n">>,
      <<"s","i","g","n"," ","i","n">>,
      <<"a","u","t","h","e","n","t","i","c","a","t","i","o","n">>,
      <<"a","c","c","e","s","s">>,
      <<"f","o","r","g","o","t"," ","p","a","s","s","w","o","r","d">> >> ]
Svc_wifi_not_working ==
  [ issueType |-> <<"w","i","f","i","_","n","o","t","_","w","o","r","k","i","n","g">>,
    description |-> <<"W","i","-","F","i"," ","n","o","t"," ","w","o","r","k","i","n","g">>,
    price |-> 20,
    keywords |-> <<
      <<"w","i","f","i">>,
      <<"w","i","-","f","i">>,
      <<"i","n","t","e","r","n","e","t">>,
      <<"c","o","n","n","e","c","t","i","o","n">>,
      <<"n","e","t","w","o","r","k">>,
      <<"c","a","n","t"," ","c","o","n","n","e","c","t">>,
      <<"n","o"," ","i","n","t","e","r","n","e","t">>,
      <<"w","i","r","e","l","e","s","s">>,
      <<"r","o","u","t","e","r">>,
      <<"c","o","n","n","e","c","t","i","v","i","t","y">> >> ]
Svc_slow_laptop_performance ==
  [ issueType |-> <<"s","l","o","w","_","l","a","p","t","o","p","_","p","e","r","f","o","r","m","a","n","c","e">>,
    description |-> <<"S","l","o","w"," ","l","a","p","t","o","p"," ","p","e","r","f","o","r","m","a","n","c","e">>,
    price |-> 25,
    keywords |-> <<
      <<"s","l","o","w">>,
      <<"p","e","r","f","o","r","m","a","n","c","e">>,
      <<"l","a","g">>,
      <<"f","r","e","e","z","e">>,
      <<"c","p","u">>,
      <<"m","e","m","o","r","y">>,
      <<"f","a","s","t">>,
      <<"s","p","e","e","d">>,
      <<"r","u","n","n","i","n","g"," ","s","l","o","w">>,
      <<"s","l","u","g","g","i","s","h">>,
      <<"h","a","n","g","i","n","g">> >> ]
getAllServices == << Svc_printer_problems, Svc_email_login_issues, Svc_wifi_not_working, Svc_slow_laptop_performance >>

\* ------------------------------------------------------------------------
\* IssueClassifier.ts
\* ------------------------------------------------------------------------
\* String.prototype.includes
Includes(text, part) ==
  \E i \in 1..(Len(text) - Len(part) + 1) : SubSeq(text, i, i + Len(part) - 1) = part

RECURSIVE SumLen(_)
SumLen(seq) == IF seq = <<>> THEN 0 ELSE Len(Head(seq)) + SumLen(Tail(seq))

MatchedKeywords(issueDescription, service) ==
  SelectSeq(service.keywords, LAMBDA keyword : Includes(issueDescription, ToLower(keyword)))

\* The score without the lengths of the keywords
KeywordScoreCount(matchedKeywords) == Len(matchedKeywords)

\* sum over the matched keywords of kw.length * matchedKeywords.length
KeywordScore(matchedKeywords) == SumLen(matchedKeywords) * Len(matchedKeywords)

S_unknown == <<"u","n","k","n","o","w","n">>
S_UnableToDetermine == <<"U","n","a","b","l","e">>

\* NoMatch stands for null
NoMatch == [method |-> "null"]

classifyByKeywords(issueDescription, services) ==
  LET score(i) == KeywordScore(MatchedKeywords(issueDescription, services[i]))
  IN Let({ i \in DOMAIN services :
             Len(MatchedKeywords(issueDescription, services[i])) > 0 },
       LAMBDA scored :
         IF scored = {} THEN NoMatch
         ELSE \* the stable descending sort puts first the earliest entry of top score
              Let(CHOOSE i \in scored :
                    \A j \in scored : score(j) < score(i) \/ (score(j) = score(i) /\ i <= j),
                LAMBDA top :
                  Let(IF scored \ {top} = {} THEN 0
                      ELSE score(CHOOSE i \in scored \ {top} :
                                   \A j \in scored \ {top} : score(j) <= score(i)),
                    LAMBDA secondBestScore :
                      [ issueType |-> services[top].issueType,
                        description |-> services[top].description,
                        price |-> services[top].price,
                        confidence |->
                          IF score(top) > secondBestScore * 2 THEN "high"
                          ELSE IF score(top) > secondBestScore THEN "medium"
                          ELSE "low",
                        method |-> "keyword",
                        matchedKeywords |->
                          MatchedKeywords(issueDescription, services[top]) ])))

classify(issueDescription, services) ==
  Let(classifyByKeywords(Trim(ToLower(issueDescription)), services),
    LAMBDA keywordResult :
      IF keywordResult.method # "null" /\ keywordResult.confidence = "high"
        THEN keywordResult
      ELSE IF keywordResult.method # "null" /\ keywordResult.confidence = "medium"
        THEN keywordResult
      ELSE [ issueType |-> S_unknown,
             description |-> S_UnableToDetermine,
             price |-> 0,
             confidence |-> "low",
             method |-> "clarification_needed" ])

ClarificationQuestion == "I'm not quite sure I understood the issue. Is this about: 1. Wi-Fi ($20) 2. Email ($15) 3. Slow laptop ($25) 4. Printer ($10)"

generateClarificationQuestion(issueDescription) == ClarificationQuestion

\* ------------------------------------------------------------------------
\* Strings used as utterances and tool arguments
\* ------------------------------------------------------------------------
S_HiJohn == <<"H","i",","," ","I","'","m"," ","J","o","h","n"," ","D","o","e">>
S_JohnDoe == <<"J","o","h","n"," ","D","o","e">>
S_J == <<"J">>
S_123 == <<"1","2","3">>
S_JohnEmail == <<"j","o","h","n","@","e","x","a","m","p","l","e",".","c","o","m">>
S_UpperEmail == <<" "," ","U","S","E","R","@","E","X","A","M","P","L","E",".","C","O","M"," "," ">>
S_NotAnEmail == <<"n","o","t","-","a","n","-","e","m","a","i","l">>
S_Phone10 == <<"5","1","0","5","5","5","1","2","3","4">>
S_PhoneDash == <<"5","1","0","-","5","5","5","-","1","2","3","4">>
S_Phone6 == <<"1","2","3","4","5","6">>
S_PhoneWords == <<"a","b","c","d","e","f","g","h","i","j">>
S_Address == <<"1","2","3"," ","M","a","i","n"," ","S","t",","," ","A","n","y","t","o","w","n",","," ","U","S","A">>
S_IssuePrinter == <<"m","y"," ","p","r","i","n","t","e","r"," ","k","e","e","p","s"," ","j","a","m","m","i","n","g">>
S_IssueVague == <<"i","t"," ","i","s"," ","b","r","o","k","e","n">>
S_Yes == <<"y","e","s"," ","t","h","a","t","'","s"," ","c","o","r","r","e","c","t">>
S_Reply == <<"O","K">>
S_Apology == <<"I","'","m"," ","s","o","r","r","y">>
S_SystemPrompt == <<"S","Y","S">>

\* ------------------------------------------------------------------------
\* ToolExecutor.ts.  A tool's argument string is either malformed JSON or an
\* object whose values carry their JSON type; a tool's result is the object
\* that JSON.stringify writes and handleToolResult parses back.
\* ------------------------------------------------------------------------
JStr(v) == [t |-> "string", v |-> v]
JNum(n) == [t |-> "number", n |-> n]
MalformedJson == [kind |-> "malformed"]
JsonObject(obj) == [kind |-> "object", obj |-> obj]

HasString(obj, k) == k \in DOMAIN obj /\ obj[k].t = "string"
HasNumber(obj, k) == k \in DOMAIN obj /\ obj[k].t = "number"

\* z.string().email(): no leading dot, no two dots in a row, a local part
\* ending in a letter, digit, _ + or -, dotted domain labels and a TLD of two
\* or more letters; unlike validateEmail, nothing is trimmed
IsZodLocalChar(ch) == IsLetter(ch) \/ IsDigit(ch) \/ ch \in {"_","'","+","-","."}
IsZodLabelChar(ch) == IsLetter(ch) \/ IsDigit(ch) \/ ch = "-"
ZodEmail(s) ==
  /\ Len(s) > 0 /\ s[1] # "."
  /\ \A k \in 1..Len(s)-1 : ~(s[k] = "." /\ s[k+1] = ".")
  /\ \E at \in 2..Len(s) : \E dot \in at+2..Len(s)-2 :
       /\ s[at] = "@"
       /\ s[dot] = "."
       /\ \A k \in 1..at-1 : IsZodLocalChar(s[k])
       /\ s[at-1] # "." /\ s[at-1] # "'"
       /\ \A k \in at+1..dot-1 : IsZodLabelChar(s[k]) \/ s[k] = "."
       /\ \A k \in at+1..dot : s[k] = "." => (k > at+1 /\ s[k-1] # ".")
       /\ \A k \in at+1..dot-1 : (k = at+1 \/ s[k-1] = ".") => s[k] # "-"
       /\ \A k \in dot+1..Len(s) : IsLetter(s[k])

validateEmailSchema(obj) == HasString(obj, "email")
validatePhoneSchema(obj) == HasString(obj, "phone")
classifyIssueSchema(obj) == HasString(obj, "description")
getPriceSchema(obj) == HasString(obj, "issueType")
createTicketSchema(obj) ==
  /\ HasString(obj, "name") /\ Len(obj.name.v) >= 2
  /\ HasString(obj, "email") /\ ZodEmail(obj.email.v)
  /\ HasString(obj, "phone") /\ Len(obj.phone.v) >= 10
  /\ HasString(obj, "address") /\ Len(obj.address.v) >= 10
  /\ HasString(obj, "issue") /\ Len(obj.issue.v) >= 5
  /\ ("issueType" \in DOMAIN obj => obj.issueType.t = "string")
  /\ HasNumber(obj, "price") /\ obj.price.n > 0

\* What a handler does: it returns a result or throws, and create_ticket may
\* have written a ticket
NoTicket == [written |-> FALSE]
HandlerReturns(result) == [threw |-> FALSE, result |-> result, ticket |-> NoTicket]
HandlerThrows(error) == [threw |-> TRUE, error |-> error, ticket |-> NoTicket]

ErrSyntax == "SyntaxError: Unexpected token in JSON"
ErrZod == "ZodError"
ErrDatabase == "PrismaClientKnownRequestError"
ErrUnknownTool == "Error: Unknown tool"
ErrNotFound == "Issue type not found"

\* schema.parse(JSON.parse(args)) throws on malformed JSON or a schema violation
ParseFails(args, schema(_)) == args.kind = "malformed" \/ ~schema(args.obj)
ParseError(args) == IF args.kind = "malformed" THEN ErrSyntax ELSE ErrZod

handleValidateEmail(args) ==
  IF ParseFails(args, validateEmailSchema) THEN HandlerThrows(ParseError(args))
  ELSE Let(validateEmail(args.obj.email.v),
         LAMBDA result :
           IF result.isValid
             THEN Let(extractEmail(args.obj.email.v),
                    LAMBDA found :
                      HandlerReturns([success |-> TRUE, isValid |-> TRUE,
                                      email |-> IF found # Undefined
                                                  THEN found ELSE result.sanitized]))
             ELSE HandlerReturns([success |-> TRUE, isValid |-> FALSE,
                                  error |-> result.error]))

handleValidatePhone(args) ==
  IF ParseFails(args, validatePhoneSchema) THEN HandlerThrows(ParseError(args))
  ELSE Let(validatePhone(args.obj.phone.v),
         LAMBDA result :
           IF result.isValid
             THEN Let(extractPhone(args.obj.phone.v),
                    LAMBDA found :
                      HandlerReturns([success |-> TRUE, isValid |-> TRUE,
                                      phone |-> IF found # Undefined
                                                  THEN found ELSE result.sanitized]))
             ELSE HandlerReturns([success |-> TRUE, isValid |-> FALSE,
                                  error |-> result.error]))

\* dbOk: whether the database answers the catalog query
handleClassifyIssue(args, dbOk) ==
  IF ParseFails(args, classifyIssueSchema) THEN HandlerThrows(ParseError(args))
  ELSE IF ~dbOk THEN HandlerThrows(ErrDatabase)
  ELSE Let(classify(args.obj.description.v, getAllServices),
         LAMBDA result :
           IF result.confidence = "low" \/ result.method = "clarification_needed"
             THEN HandlerReturns([success |-> TRUE, needsClarification |-> TRUE,
                                  clarificationQuestion |->
                                    generateClarificationQuestion(args.obj.description.v)])
             ELSE HandlerReturns([success |-> TRUE, issueType |-> result.issueType,
                                  description |-> result.description,
                                  price |-> result.price,
                                  confidence |-> result.confidence]))

handleGetPrice(args, dbOk) ==
  IF ParseFails(args, getPriceSchema) THEN HandlerThrows(ParseError(args))
  ELSE IF ~dbOk THEN HandlerThrows(ErrDatabase)
  ELSE LET issueType == args.obj.issueType.v
           found == { i \in DOMAIN getAllServices : getAllServices[i].issueType = issueType }
       IN IF found = {}
            THEN HandlerReturns([success |-> FALSE, error |-> ErrNotFound])
            ELSE HandlerReturns([success |-> TRUE, issueType |-> issueType,
                                 price |-> getAllServices[CHOOSE i \in found : TRUE].price])

\* The identity the repository gives the n-th ticket
TicketId(n) == <<"i","d","-", DigitChars[(n % 10) + 1]>>
TicketNumber(n) == <<"T","K","T","-", DigitChars[(n % 10) + 1]>>

\* dbOk: whether TicketRepository.createTicket succeeds; n: the number of
\* tickets in the repository after this one
handleCreateTicket(args, dbOk, n) ==
  IF ParseFails(args, createTicketSchema) THEN HandlerThrows(ParseError(args))
  ELSE Let(<< validateName(args.obj.name.v), validateEmail(args.obj.email.v),
              validatePhone(args.obj.phone.v), validateAddress(args.obj.address.v),
              validateIssue(args.obj.issue.v) >>,
         LAMBDA validations :
           Let(SelectSeq(validations, LAMBDA validation : ~validation.isValid),
             LAMBDA failed :
               IF Len(failed) > 0
                 THEN HandlerReturns([success |-> FALSE,
                                      errors |-> [i \in DOMAIN failed |-> failed[i].error]])
               ELSE IF ~dbOk THEN HandlerThrows(ErrDatabase)
               ELSE [ threw |-> FALSE,
                      result |-> [success |-> TRUE, ticketId |-> TicketId(n),
                                  ticketNumber |-> TicketNumber(n),
                                  price |-> args.obj.price.n],
                      ticket |-> [ written |-> TRUE,
                                   name |-> validations[1].sanitized,
                                   email |-> validations[2].sanitized,
                                   phone |-> validations[3].sanitized,
                                   address |-> validations[4].sanitized,
                                   issue |-> validations[5].sanitized,
                                   issueType |-> IF "issueType" \in DOMAIN args.obj
                                                   THEN args.obj.issueType.v
                                                   ELSE Undefined,
                                   price |-> args.obj.price.n ] ]))

\* The tool names execute knows
ToolNames ==
  { "validate_email", "validate_phone", "classify_issue",
    "get_price_for_issue", "create_ticket" }

\* The switch of execute, without its try/catch
Dispatch(toolName, args, dbOk, n) ==
  CASE toolName = "validate_email" -> handleValidateEmail(args)
    [] toolName = "validate_phone" -> handleValidatePhone(args)
    [] toolName = "classify_issue" -> handleClassifyIssue(args, dbOk)
    [] toolName = "get_price_for_issue" -> handleGetPrice(args, dbOk)
    [] toolName = "create_ticket" -> handleCreateTicket(args, dbOk, n)
    [] OTHER -> HandlerThrows(ErrUnknownTool)

\* execute with the switch outside the try block
executeNoCatch(toolName, args, dbOk, n) == Dispatch(toolName, args, dbOk, n)

\* execute: whatever the switch throws becomes a failure result
execute(toolName, args, dbOk, n) ==
  Let(Dispatch(toolName, args, dbOk, n),
    LAMBDA outcome :
      IF outcome.threw
        THEN HandlerReturns([success |-> FALSE, error |-> outcome.error])
        ELSE outcome)

\* ------------------------------------------------------------------------
\* VoiceAgent.ts: the turn processor
\* ------------------------------------------------------------------------
\* /yes|correct|confirm|that's right/i.test(userMessage)
IsConfirmation(userMessage) ==
  LET lower == ToLower(userMessage)
  IN \/ Includes(lower, <<"y","e","s">>)
     \/ Includes(lower, <<"c","o","r","r","e","c","t">>)
     \/ Includes(lower, <<"c","o","n","f","i","r","m">>)
     \/ Includes(lower, <<"t","h","a","t","'","s"," ","r","i","g","h","t">>)

\* The COLLECTING_ISSUE branch of updateContextFromUserInput without the
\* test of the confidence
updateContextFromUserInputAnyConfidence(context, userMessage, dbOk) ==
  IF context.state = "COLLECTING_ISSUE" /\ validateIssue(userMessage).isValid /\ dbOk
    THEN Let(classify(userMessage, getAllServices),
           LAMBDA classification :
             advanceToNextState(
               updateField(
                 updateField(
                   updateField(context, "issue", validateIssue(userMessage).sanitized),
                   "issueType", classification.issueType),
                 "price", classification.price)))
    ELSE Returned(context)

\* dbOk: whether the catalog query of the classifier succeeds
updateContextFromUserInput(context, userMessage, dbOk) ==
  CASE context.state \in {"GREETING", "COLLECTING_NAME"} ->
         IF ~Truthy(context.name)
           THEN Let(validateName(userMessage),
                  LAMBDA nameValidation :
                    IF nameValidation.isValid
                      THEN advanceToNextState(
                             updateField(context, "name", nameValidation.sanitized))
                      ELSE Returned(context))
           ELSE Returned(context)
    [] context.state = "COLLECTING_EMAIL" ->
         Let(extractEmail(userMessage),
           LAMBDA extractedEmail :
             IF Truthy(extractedEmail)
               THEN Let(validateEmail(extractedEmail),
                      LAMBDA emailValidation :
                        IF emailValidation.isValid
                          THEN advanceToNextState(
                                 updateField(context, "email", emailValidation.sanitized))
                          ELSE Returned(context))
               ELSE Returned(context))
    [] context.state = "COLLECTING_PHONE" ->
         Let(extractPhone(userMessage),
           LAMBDA extractedPhone :
             IF Truthy(extractedPhone)
               THEN Let(validatePhone(extractedPhone),
                      LAMBDA phoneValidation :
                        IF phoneValidation.isValid
                          THEN advanceToNextState(
                                 updateField(context, "phone", phoneValidation.sanitized))
                          ELSE Returned(context))
               ELSE Returned(context))
    [] context.state = "COLLECTING_ADDRESS" ->
         Let(validateAddress(userMessage),
           LAMBDA addressValidation :
             IF addressValidation.isValid
               THEN advanceToNextState(
                      updateField(context, "address", addressValidation.sanitized))
               ELSE Returned(context))
    [] context.state = "COLLECTING_ISSUE" ->
         Let(validateIssue(userMessage),
           LAMBDA issueValidation :
             IF issueValidation.isValid
               THEN Let(updateField(context, "issue", issueValidation.sanitized),
                      LAMBDA withIssue :
                        IF ~dbOk THEN Threw(withIssue)
                        ELSE Let(classify(userMessage, getAllServices),
                               LAMBDA classification :
                                 IF classification.confidence # "low"
                                   THEN advanceToNextState(
                                          updateField(
                                            updateField(withIssue, "issueType",
                                                        classification.issueType),
                                            "price", classification.price))
                                   ELSE Returned(withIssue)))
               ELSE Returned(context))
    [] context.state = "CONFIRMING_DETAILS" ->
         IF IsConfirmation(userMessage)
           THEN advanceToNextState(context)
           ELSE Returned(context)
    [] OTHER -> Returned(context)

\* Reading a property of the parsed result: absent reads as undefined
JsTrue(parsed, k) == k \in DOMAIN parsed /\ parsed[k] = TRUE
StringField(parsed, k) == IF k \in DOMAIN parsed THEN parsed[k] ELSE Undefined
NumberField(parsed, k) == IF k \in DOMAIN parsed THEN parsed[k] ELSE NoPrice

\* The context after handleToolResult; its try/catch swallows a failed
\* transition and keeps the fields written before it
handleToolResult(context, toolName, parsed) ==
  CASE toolName = "validate_email" ->
         IF JsTrue(parsed, "isValid")
           THEN updateField(context, "email", StringField(parsed, "email"))
           ELSE context
    [] toolName = "validate_phone" ->
         IF JsTrue(parsed, "isValid")
           THEN updateField(context, "phone", StringField(parsed, "phone"))
           ELSE context
    [] toolName = "classify_issue" ->
         IF ~JsTrue(parsed, "needsClarification")
           THEN updateField(
                  updateField(context, "issueType", StringField(parsed, "issueType")),
                  "price", NumberField(parsed, "price"))
           ELSE context
    [] toolName = "create_ticket" ->
         IF JsTrue(parsed, "success")
           THEN transitionTo(
                  updateField(
                    updateField(context, "ticketId", StringField(parsed, "ticketId")),
                    "ticketNumber", StringField(parsed, "ticketNumber")),
                  "CONFIRMATION").context
           ELSE context
    [] OTHER -> context

\* The tool calls the language model may request
S_printer_problems == Svc_printer_problems.issueType

TicketArgs(name, email, phone) ==
  JsonObject([ name |-> JStr(name), email |-> JStr(email), phone |-> JStr(phone),
               address |-> JStr(S_Address), issue |-> JStr(S_IssuePrinter),
               issueType |-> JStr(S_printer_problems), price |-> JNum(10) ])

ToolCall(name, arguments) == [name |-> name, arguments |-> arguments]

TC_CreateValid == ToolCall("create_ticket", TicketArgs(S_JohnDoe, S_JohnEmail, S_Phone10))
TC_Unknown == ToolCall("delete_ticket", JsonObject([id |-> JNum(1)]))

ToolCallChoices == { TC_CreateValid, TC_Unknown }

SeqsUpTo(S, n) == UNION { [1..k -> S] : k \in 0..n }

\* What the caller may say
Utterances == { S_HiJohn, S_J }

\* ------------------------------------------------------------------------
\* LLMErrorHandler.ts: the CircuitBreaker.  Its record holds the fields of
\* the object, the clock (now, in ms), whether a call is inside execute (pc),
\* and what is observed of its calls: run, the number of operations that
\* failed since the last one that succeeded, trials, the number of operations
\* that succeeded since the circuit last left OPEN, and last, the latest call
\* ------------------------------------------------------------------------
MaxBreakerTurns == 6
MaxTicks == 4

\* The defaults of the constructor, which the provider takes
BreakerDefaults ==
  [failureThreshold |-> 3, resetTimeout |-> 30000, halfOpenSuccessThreshold |-> 2]

NoCall == [kind |-> "none"]

NewBreaker ==
  [ state |-> "CLOSED", failureCount |-> 0, lastFailureTime |-> 0, successCount |-> 0,
    now |-> 0, pc |-> "idle", run |-> 0, trials |-> 0, last |-> NoCall ]

\* onSuccess closing the circuit at the first trial call that succeeds
onSuccessFirstTrial(b) ==
  IF b.state = "HALF_OPEN"
    THEN [b EXCEPT !.successCount = @ + 1, !.state = "CLOSED", !.failureCount = 0]
    ELSE [b EXCEPT !.failureCount = 0]

onSuccess(b) ==
  IF b.state = "HALF_OPEN"
    THEN IF b.successCount + 1 >= BreakerDefaults.halfOpenSuccessThreshold
           THEN [b EXCEPT !.successCount = @ + 1, !.state = "CLOSED", !.failureCount = 0]
           ELSE [b EXCEPT !.successCount = @ + 1]
    ELSE [b EXCEPT !.failureCount = 0]

\* onFailure opening the circuit one failure late
onFailureAboveThreshold(b) ==
  [b EXCEPT !.failureCount = @ + 1,
            !.lastFailureTime = b.now,
            !.state = IF b.state = "HALF_OPEN"
                         \/ b.failureCount + 1 > BreakerDefaults.failureThreshold
                        THEN "OPEN" ELSE @]

onFailure(b) ==
  [b EXCEPT !.failureCount = @ + 1,
            !.lastFailureTime = b.now,
            !.state = IF b.state = "HALF_OPEN"
                         \/ b.failureCount + 1 >= BreakerDefaults.failureThreshold
                        THEN "OPEN" ELSE @]

Callers == 1..NumCallers

VARIABLES
  context,              \* ConversationManager.context
  conversationHistory,  \* VoiceAgent.conversationHistory
  isProcessing,         \* VoiceAgent.isProcessing
  turn,                 \* per invocation of processUserInput: where it is and its locals
  tickets,              \* the rows TicketRepository.createTicket has written
  skipped,              \* whether the latest invocation returned at the guard
  lastOp,               \* the latest ConversationManager operation and its outcome
  retry,                \* one call of withRetry: its locals and what it did
  breaker               \* the CircuitBreaker of the LLM provider, the clock, its latest call

vars == << context, conversationHistory, isProcessing, turn, tickets, skipped,
           lastOp, retry, breaker >>

NoTool == [name |-> "none"]

\* No ConversationManager operation observed yet; withRetry not called
NoOp == [name |-> "none"]
NoRetry == [pc |-> "idle"]
NoLog == [written |-> FALSE]

\* An invocation that is not running.  startContext is the context on entry;
\* lastTool is the tool call of the current loop iteration with its result;
\* said is what sendResponse synthesized, tracked whether costTracker.track
\* ran, log the row createLog wrote, failedAt the step whose exception reached
\* the catch block, escaped whether an exception left processUserInput.
IdleTurn ==
  [ pc |-> "idle", userMessage |-> <<>>, startContext |-> NewContext,
    content |-> <<>>, toolCalls |-> <<>>, lastTool |-> NoTool,
    said |-> <<>>, tracked |-> FALSE, log |-> NoLog,
    failedAt |-> "none", escaped |-> FALSE ]

Message(role, content) == [role |-> role, content |-> content]

TurnsStarted == Len(SelectSeq(conversationHistory, LAMBDA m : m.role = "user"))

Init ==
  /\ context = NewContext
  /\ conversationHistory = << Message("system", S_SystemPrompt) >>
  /\ isProcessing = FALSE
  /\ turn = [c \in Callers |-> IdleTurn]
  /\ tickets = <<>>
  /\ skipped = FALSE
  /\ lastOp = NoOp
  /\ retry = NoRetry
  /\ breaker = NewBreaker

\* processUserInput up to its first provider call: the guard and its early
\* return, or the history entry and the context update
\* processUserInput without the isProcessing check of its first lines
ProcessUserInputNoGuard(c, userMessage) ==
  /\ turn[c].pc = "idle"
  /\ UNCHANGED << lastOp, retry, breaker >>
  /\ isProcessing' = TRUE
  /\ conversationHistory' =
       Append(conversationHistory, Message("user", userMessage))
  /\ \E dbOk \in BOOLEAN :
       \E updated \in { updateContextFromUserInput(context, userMessage, dbOk) } :
          /\ context' = updated.context
          /\ turn' = [turn EXCEPT ![c] =
               [ IdleTurn EXCEPT
                   !.pc = IF updated.threw THEN "catch" ELSE "llm",
                   !.userMessage = userMessage,
                   !.startContext = context,
                   !.failedAt = IF updated.threw THEN "update" ELSE "none" ]]
  /\ skipped' = FALSE
  /\ UNCHANGED tickets

\* processUserInput up to its first await: the reentrancy guard, the history
\* push and updateContextFromUserInput
ProcessUserInput(c, userMessage) ==
  /\ turn[c].pc = "idle"
  /\ UNCHANGED << lastOp, retry, breaker >>
  /\ IF isProcessing
       THEN /\ skipped' = TRUE
            /\ UNCHANGED << context, conversationHistory, isProcessing, turn, tickets >>
       ELSE /\ isProcessing' = TRUE
            /\ skipped' = FALSE
            /\ conversationHistory' =
                 Append(conversationHistory, Message("user", userMessage))
            /\ \E dbOk \in BOOLEAN :
                 \E updated \in { updateContextFromUserInput(context, userMessage, dbOk) } :
                    /\ context' = updated.context
                    /\ turn' = [turn EXCEPT ![c] =
                         [ IdleTurn EXCEPT
                             !.pc = IF updated.threw THEN "catch" ELSE "llm",
                             !.userMessage = userMessage,
                             !.startContext = context,
                             !.failedAt = IF updated.threw THEN "update" ELSE "none" ]]
            /\ UNCHANGED tickets

\* providers.llm.complete returns a reply and tool calls, or throws
LLMComplete(c) ==
  /\ turn[c].pc = "llm"
  /\ UNCHANGED << lastOp, retry, breaker >>
  /\ \/ \E content \in {<<>>, S_Reply} :
          \E toolCalls \in SeqsUpTo(ToolCallChoices, MaxToolCalls) :
            turn' = [turn EXCEPT ![c].pc = "tools", ![c].content = content,
                                 ![c].toolCalls = toolCalls]
     \/ turn' = [turn EXCEPT ![c].pc = "catch", ![c].failedAt = "llm"]
  /\ UNCHANGED << context, conversationHistory, isProcessing, tickets, skipped >>

\* The loop taking the calls of the reply from the back
ExecuteToolLastFirst(c) ==
  /\ turn[c].pc = "tools"
  /\ UNCHANGED << lastOp, retry, breaker >>
  /\ turn[c].toolCalls # <<>>
  /\ \E dbOk \in BOOLEAN, toolCall \in { turn[c].toolCalls[Len(turn[c].toolCalls)] } :
       \E outcome \in { execute(toolCall.name, toolCall.arguments, dbOk, Len(tickets) + 1) } :
          IF outcome.threw
            THEN /\ turn' = [turn EXCEPT ![c].pc = "catch", ![c].failedAt = "tool"]
                 /\ UNCHANGED << context, tickets >>
            ELSE /\ context' = handleToolResult(context, toolCall.name, outcome.result)
                 /\ tickets' =
                      IF outcome.ticket.written
                        THEN Append(tickets, [data |-> outcome.ticket, atState |-> context.state])
                        ELSE tickets
                 /\ turn' = [turn EXCEPT
                      ![c].toolCalls = SubSeq(@, 1, Len(@) - 1),
                      ![c].lastTool = [ name |-> toolCall.name,
                                        arguments |-> toolCall.arguments,
                                        result |-> outcome.result,
                                        written |-> outcome.ticket.written ]]
  /\ UNCHANGED << conversationHistory, isProcessing, skipped >>

\* One iteration of the tool-call loop: toolExecutor.execute, then
\* handleToolResult
ExecuteToolStep(c) ==
  /\ turn[c].pc = "tools"
  /\ UNCHANGED << retry, breaker >>
  /\ turn[c].toolCalls # <<>>
  /\ \E dbOk \in BOOLEAN, toolCall \in { Head(turn[c].toolCalls) } :
       \E outcome \in { execute(toolCall.name, toolCall.arguments, dbOk, Len(tickets) + 1) } :
          IF outcome.threw
            THEN /\ turn' = [turn EXCEPT ![c].pc = "catch", ![c].failedAt = "tool"]
                 /\ UNCHANGED << context, tickets >>
            ELSE /\ context' = handleToolResult(context, toolCall.name, outcome.result)
                 /\ tickets' =
                      IF outcome.ticket.written
                        THEN Append(tickets, [data |-> outcome.ticket, atState |-> context.state])
                        ELSE tickets
                 /\ turn' = [turn EXCEPT
                      ![c].toolCalls = Tail(@),
                      ![c].lastTool = [ name |-> toolCall.name,
                                        arguments |-> toolCall.arguments,
                                        result |-> outcome.result,
                                        written |-> outcome.ticket.written ]]
  /\ UNCHANGED << conversationHistory, isProcessing, skipped >>

ExecuteTool(c) ==
  /\ ExecuteToolStep(c)
  /\ UNCHANGED lastOp

\* After the loop: the reply, if any, goes to the history and to sendResponse,
\* which rethrows a TTS failure
Respond(c) ==
  /\ turn[c].pc = "tools"
  /\ UNCHANGED << lastOp, retry, breaker >>
  /\ turn[c].toolCalls = <<>>
  /\ IF turn[c].content # <<>>
       THEN /\ conversationHistory' =
                 Append(conversationHistory, Message("assistant", turn[c].content))
            /\ \E ttsOk \in BOOLEAN :
                 IF ttsOk
                   THEN turn' = [turn EXCEPT ![c].pc = "account",
                                             ![c].lastTool = NoTool,
                                             ![c].said = Append(@, turn[c].content)]
                   ELSE turn' = [turn EXCEPT ![c].pc = "catch",
                                             ![c].lastTool = NoTool,
                                             ![c].failedAt = "tts"]
       ELSE /\ turn' = [turn EXCEPT ![c].pc = "account", ![c].lastTool = NoTool]
            /\ UNCHANGED conversationHistory
  /\ UNCHANGED << context, isProcessing, tickets, skipped >>

\* costTracker.track, then conversationLogger.createLog, which rethrows a
\* failed write
Account(c) ==
  /\ turn[c].pc = "account"
  /\ UNCHANGED << lastOp, retry, breaker >>
  /\ \E logOk \in BOOLEAN :
       IF logOk
         THEN turn' = [turn EXCEPT
                ![c].pc = "finally",
                ![c].tracked = TRUE,
                ![c].log = [ written |-> TRUE,
                             sessionId |-> context.sessionId,
                             conversationState |-> context.state,
                             userMessage |-> turn[c].userMessage,
                             botResponse |-> turn[c].content ]]
         ELSE turn' = [turn EXCEPT ![c].pc = "catch", ![c].tracked = TRUE,
                                   ![c].failedAt = "log"]
  /\ UNCHANGED << context, conversationHistory, isProcessing, tickets, skipped >>

\* The catch block: the fixed apology through sendResponse, whose failure
\* leaves processUserInput as an exception
Catch(c) ==
  /\ turn[c].pc = "catch"
  /\ UNCHANGED << lastOp, retry, breaker >>
  /\ \E ttsOk \in BOOLEAN :
       IF ttsOk
         THEN turn' = [turn EXCEPT ![c].pc = "finally", ![c].said = Append(@, S_Apology)]
         ELSE turn' = [turn EXCEPT ![c].pc = "finally", ![c].escaped = TRUE]
  /\ UNCHANGED << context, conversationHistory, isProcessing, tickets, skipped >>

\* The flag reset as the last statement of the try block instead of in finally
FinallyAfterTry(c) ==
  /\ turn[c].pc = "finally"
  /\ UNCHANGED << lastOp, retry, breaker >>
  /\ isProcessing' = IF turn[c].failedAt = "none" THEN FALSE ELSE isProcessing
  /\ turn' = [turn EXCEPT ![c] = IdleTurn]
  /\ UNCHANGED << context, conversationHistory, tickets, skipped >>

\* The finally block
Finally(c) ==
  /\ turn[c].pc = "finally"
  /\ UNCHANGED << lastOp, retry, breaker >>
  /\ isProcessing' = FALSE
  /\ turn' = [turn EXCEPT ![c] = IdleTurn]
  /\ UNCHANGED << context, conversationHistory, tickets, skipped >>

Next ==
  \E c \in Callers :
    \/ /\ isProcessing \/ TurnsStarted < MaxTurns
       /\ \E userMessage \in Utterances : ProcessUserInput(c, userMessage)
    \/ LLMComplete(c)
    \/ ExecuteTool(c)
    \/ Respond(c)
    \/ Account(c)
    \/ Catch(c)
    \/ Finally(c)

Spec == Init /\ [][Next]_vars

\* ------------------------------------------------------------------------
\* The turn processor with the failed tool calls of the session counted:
\* lastOp.failures is the number of results with success false so far
\* ------------------------------------------------------------------------
ExecuteToolCounted(c) ==
  /\ ExecuteToolStep(c)
  /\ lastOp' =
       IF turn'[c].pc = "tools" /\ turn'[c].lastTool.result.success = FALSE
         THEN [ name |-> "toolFailures",
                failures |-> IF lastOp = NoOp THEN 1 ELSE lastOp.failures + 1 ]
         ELSE lastOp

NextCounted ==
  \E c \in Callers :
    \/ /\ isProcessing \/ TurnsStarted < MaxTurns
       /\ \E userMessage \in Utterances : ProcessUserInput(c, userMessage)
    \/ LLMComplete(c)
    \/ ExecuteToolCounted(c)
    \/ Respond(c)
    \/ Account(c)
    \/ Catch(c)
    \/ Finally(c)

SpecCounted == Init /\ [][NextCounted]_vars


\* One step of the invocation that is in its processing phase
TurnStep ==
  \E c \in Callers :
    LLMComplete(c) \/ ExecuteTool(c) \/ Respond(c) \/ Account(c) \/ Catch(c) \/ Finally(c)

\* Some invocation is in its processing phase.  This is ENABLED
\* <<TurnStep>>_vars computed from the positions alone (TurnPendingIsEnabled):
\* every position of a turn has a step, and every step changes the position.
TurnPending == \E c \in Callers : turn[c].pc # "idle"

TurnPendingIsEnabled == TurnPending <=> ENABLED <<TurnStep>>_vars

\* Every call of the providers, the tools and the repositories returns or
\* throws, and the event loop then resumes the invocation that awaited it:
\* weak fairness of TurnStep, WF_vars(TurnStep), written out with TurnPending
\* for its ENABLED.  Nobody is obliged to speak.
FairSpec ==
  /\ Spec
  /\ []<>(~TurnPending) \/ []<><<TurnStep>>_vars

\* ------------------------------------------------------------------------
\* A cooperative caller: every utterance is valid for the field the current
\* state collects, and every language-model call succeeds with a reply
\* ------------------------------------------------------------------------
MaxValidTurns == 7

ValidUtterance(state) ==
  CASE state \in {"GREETING", "COLLECTING_NAME"} -> S_HiJohn
    [] state = "COLLECTING_EMAIL" -> S_JohnEmail
    [] state = "COLLECTING_PHONE" -> S_PhoneDash
    [] state = "COLLECTING_ADDRESS" -> S_Address
    [] state = "COLLECTING_ISSUE" -> S_IssuePrinter
    [] OTHER -> S_Yes

ProcessValidInput(c) ==
  /\ isProcessing \/ TurnsStarted < MaxValidTurns
  /\ ProcessUserInput(c, ValidUtterance(context.state))

LLMReplies(c) ==
  /\ LLMComplete(c)
  /\ turn'[c].pc = "tools"
  /\ turn'[c].content = S_Reply

NextValid ==
  \E c \in Callers :
    \/ ProcessValidInput(c)
    \/ LLMReplies(c)
    \/ ExecuteTool(c)
    \/ Respond(c)
    \/ Account(c)
    \/ Catch(c)
    \/ Finally(c)

SpecValid == Init /\ [][NextValid]_vars

\* ------------------------------------------------------------------------
\* The tool executor on its own: the first turn of a session, after the
\* language model has answered with the tool call under examination, alone
\* or followed by one more call
\* ------------------------------------------------------------------------
S_Short == <<"x","y","z">>

ProbeNames ==
  { "validate_email", "validate_phone", "classify_issue",
    "get_price_for_issue", "create_ticket", "delete_ticket" }

ProbeArguments ==
  { MalformedJson,
    JsonObject([id |-> JNum(1)]),
    JsonObject([email |-> JNum(1)]),
    JsonObject([email |-> JStr(S_JohnEmail)]),
    JsonObject([email |-> JStr(S_NotAnEmail)]),
    JsonObject([phone |-> JStr(S_PhoneDash)]),
    JsonObject([phone |-> JStr(S_Phone6)]),
    JsonObject([description |-> JStr(S_IssuePrinter)]),
    JsonObject([description |-> JStr(S_IssueVague)]),
    JsonObject([issueType |-> JStr(S_printer_problems)]),
    JsonObject([issueType |-> JStr(S_unknown)]),
    TicketArgs(S_JohnDoe, S_JohnEmail, S_Phone10),
    TicketArgs(S_J, S_JohnEmail, S_Phone10),
    TicketArgs(S_123, S_JohnEmail, S_Phone10),
    TicketArgs(S_JohnDoe, S_NotAnEmail, S_Phone10),
    TicketArgs(S_JohnDoe, S_UpperEmail, S_Phone10),
    TicketArgs(S_JohnDoe, S_JohnEmail, S_Phone6),
    TicketArgs(S_JohnDoe, S_JohnEmail, S_PhoneWords),
    JsonObject([TicketArgs(S_JohnDoe, S_JohnEmail, S_Phone10).obj
                  EXCEPT !.address = JStr(S_Short)]),
    JsonObject([TicketArgs(S_JohnDoe, S_JohnEmail, S_Phone10).obj
                  EXCEPT !.issue = JStr(S_Short)]),
    JsonObject([TicketArgs(S_JohnDoe, S_JohnEmail, S_Phone10).obj
                  EXCEPT !.price = JNum(0)]) }

ProbeToolCalls == { ToolCall(name, arguments) : name \in ProbeNames,
                                                 arguments \in ProbeArguments }

InitTools ==
  /\ context = NewContext
  /\ conversationHistory = << Message("system", S_SystemPrompt), Message("user", S_J) >>
  /\ isProcessing = TRUE
  /\ tickets = <<>>
  /\ skipped = FALSE
  /\ lastOp = NoOp
  /\ retry = NoRetry
  /\ breaker = NewBreaker
  /\ \E probe \in ProbeToolCalls :
       \E toolCalls \in { <<probe>>, <<probe, TC_CreateValid>> } :
         \E content \in { <<>>, S_Reply } :
           turn = [ c \in Callers |->
                      IF c = 1
                        THEN [ IdleTurn EXCEPT !.pc = "tools", !.userMessage = S_J,
                                               !.content = content,
                                               !.toolCalls = toolCalls ]
                        ELSE IdleTurn ]

NextTools ==
  \E c \in Callers :
    \/ ExecuteTool(c)
    \/ Respond(c)
    \/ Account(c)
    \/ Catch(c)
    \/ Finally(c)

SpecTools == InitTools /\ [][NextTools]_vars

\* ------------------------------------------------------------------------
\* The ConversationManager through its public operations, in any order, with
\* the two synchronous steps of a turn that call it: the context update from
\* an utterance and the handling of a tool result
\* ------------------------------------------------------------------------
MaxTransitions == 3

\* The record of an operation: its name, its argument, whether it threw and
\* the context it found
Op(name, arg, threw) == [name |-> name, arg |-> arg, threw |-> threw, before |-> context]

\* Object.assign(this.context, updates)
updateFields(ctx, updates) ==
  [k \in DOMAIN ctx |-> IF k \in DOMAIN updates THEN updates[k] ELSE ctx[k]]

TransitionToOp(newState) ==
  /\ context.turnCount < MaxTransitions
  /\ \E done \in { transitionTo(context, newState) } :
       /\ context' = done.context
       /\ lastOp' = Op("transitionTo", newState, done.threw)
  /\ UNCHANGED << conversationHistory, isProcessing, turn, tickets, skipped, retry, breaker >>

AdvanceToNextStateOp ==
  /\ context.turnCount < MaxTransitions
  /\ \E done \in { advanceToNextState(context) } :
       /\ context' = done.context
       /\ lastOp' = Op("advanceToNextState", context.state, done.threw)
  /\ UNCHANGED << conversationHistory, isProcessing, turn, tickets, skipped, retry, breaker >>

HandleErrorOp(error) ==
  /\ context.turnCount < MaxTransitions
  /\ \E done \in { handleError(context, error) } :
       /\ context' = done.context
       /\ lastOp' = Op("handleError", error, done.threw)
  /\ UNCHANGED << conversationHistory, isProcessing, turn, tickets, skipped, retry, breaker >>

EndOp ==
  /\ context.turnCount < MaxTransitions
  /\ \E done \in { end(context) } :
       /\ context' = done.context
       /\ lastOp' = Op("end", context.state, done.threw)
  /\ UNCHANGED << conversationHistory, isProcessing, turn, tickets, skipped, retry, breaker >>

\* updateField takes any key of the context, state included
UpdateFieldOp(field, value) ==
  /\ context' = updateField(context, field, value)
  /\ lastOp' = Op("updateField", field, FALSE)
  /\ UNCHANGED << conversationHistory, isProcessing, turn, tickets, skipped, retry, breaker >>

UpdateFieldsOp(updates) ==
  /\ context' = updateFields(context, updates)
  /\ lastOp' = Op("updateFields", DOMAIN updates, FALSE)
  /\ UNCHANGED << conversationHistory, isProcessing, turn, tickets, skipped, retry, breaker >>

\* updateContextFromUserInput as processUserInput calls it
UtteranceOp(userMessage) ==
  /\ context.turnCount < MaxTransitions
  /\ \E dbOk \in BOOLEAN :
       \E updated \in { updateContextFromUserInput(context, userMessage, dbOk) } :
         /\ context' = updated.context
         /\ lastOp' = Op("updateContextFromUserInput", userMessage, updated.threw)
  /\ UNCHANGED << conversationHistory, isProcessing, turn, tickets, skipped, retry, breaker >>

\* One iteration of the tool loop of processUserInput: execute, then
\* handleToolResult
ToolResultOp(toolCall) ==
  /\ context.turnCount < MaxTransitions
  /\ \E dbOk \in BOOLEAN :
       \E outcome \in { execute(toolCall.name, toolCall.arguments, dbOk, Len(tickets) + 1) } :
         /\ ~outcome.threw
         /\ ~outcome.ticket.written
         /\ context' = handleToolResult(context, toolCall.name, outcome.result)
         /\ lastOp' = Op("handleToolResult", outcome.result, FALSE)
  /\ UNCHANGED << conversationHistory, isProcessing, turn, tickets, skipped, retry, breaker >>

InitManager ==
  /\ context = NewContext
  /\ conversationHistory = << Message("system", S_SystemPrompt) >>
  /\ isProcessing = FALSE
  /\ turn = [c \in Callers |-> IdleTurn]
  /\ tickets = <<>>
  /\ skipped = FALSE
  /\ lastOp = NoOp
  /\ retry = NoRetry
  /\ breaker = NewBreaker

NextManager ==
  \/ \E newState \in ConversationState : TransitionToOp(newState)
  \/ AdvanceToNextStateOp
  \/ \E error \in { S_IssueVague, S_Short } : HandleErrorOp(error)
  \/ EndOp
  \/ UpdateFieldOp("name", S_JohnDoe)
  \/ UpdateFieldOp("state", "ENDED")
  \/ UpdateFieldsOp([email |-> S_JohnEmail, phone |-> S_Phone10])
  \/ \E userMessage \in Utterances : UtteranceOp(userMessage)
  \/ \E arguments \in { JsonObject([description |-> JStr(S_IssuePrinter)]), MalformedJson } :
       ToolResultOp(ToolCall("classify_issue", arguments))

SpecManager == InitManager /\ [][NextManager]_vars

\* ------------------------------------------------------------------------
\* LLMErrorHandler.ts: the classification of failures and withRetry.  An
\* error is its name and its message; an LLMError is its type, its retryable
\* flag and the error it was made from.
\* ------------------------------------------------------------------------
MaxRetryConfig == 3

Error(name, message) == [name |-> name, message |-> message]

NoError == Error(<<>>, <<>>)

LLMError(type, retryable, originalError) ==
  [type |-> type, retryable |-> retryable, originalError |-> originalError]

\* LLMError.fromError for an error that is no LLMError yet: the first test
\* that matches decides
fromError(error) ==
  IF Includes(error.message, <<"t","i","m","e","o","u","t">>) \/ Includes(error.name, <<"T","i","m","e","o","u","t">>)
    THEN LLMError("timeout", TRUE, error)
  ELSE IF Includes(error.message, <<"4","2","9">>) \/ Includes(error.message, <<"r","a","t","e"," ","l","i","m","i","t">>)
    THEN LLMError("rate_limit", TRUE, error)
  ELSE IF Includes(error.message, <<"q","u","o","t","a">>) \/ Includes(error.message, <<"b","i","l","l","i","n","g">>)
    THEN LLMError("quota_exceeded", FALSE, error)
  ELSE IF \/ Includes(error.message, <<"4","0","1">>)
          \/ Includes(error.message, <<"4","0","3">>)
          \/ Includes(error.message, <<"a","u","t","h","e","n","t","i","c","a","t","i","o","n">>)
    THEN LLMError("auth_error", FALSE, error)
  ELSE IF \/ Includes(error.message, <<"5","0","0">>)
          \/ Includes(error.message, <<"5","0","2">>)
          \/ Includes(error.message, <<"5","0","3">>)
    THEN LLMError("server_error", TRUE, error)
  ELSE IF Includes(error.message, <<"E","C","O","N","N","R","E","F","U","S","E","D">>) \/ Includes(error.message, <<"n","e","t","w","o","r","k">>)
    THEN LLMError("network_error", TRUE, error)
  ELSE LLMError("unknown", TRUE, error)

DEFAULT_RETRY_CONFIG ==
  [maxRetries |-> 3, baseDelay |-> 1000, maxDelay |-> 10000, backoffMultiplier |-> 2]

\* The configurations withRetry is called with: the default one with any
\* maxRetries an option may give, -1 included
RetryConfigs ==
  { [DEFAULT_RETRY_CONFIG EXCEPT !.maxRetries = m] : m \in -1..MaxRetryConfig }

\* What the operation may reject with
OperationErrors ==
  { Error(<<>>, <<"t","i","m","e","o","u","t">>),
    Error(<<"T","i","m","e","o","u","t","E","r","r","o","r">>, <<"a","b","o","r","t","e","d">>),
    Error(<<>>, <<"4","2","9"," ","r","a","t","e"," ","l","i","m","i","t">>),
    Error(<<>>, <<"q","u","o","t","a">>),
    Error(<<>>, <<"b","i","l","l","i","n","g">>),
    Error(<<>>, <<"4","0","1"," ","b","a","d"," ","k","e","y">>),
    Error(<<>>, <<"4","0","3">>),
    Error(<<>>, <<"5","0","3">>),
    Error(<<>>, <<"E","C","O","N","N","R","E","F","U","S","E","D">>),
    Error(<<>>, <<"o","o","p","s">>),
    Error(<<>>, <<"4","2","9"," ","q","u","o","t","a">>),
    Error(<<>>, <<"a","u","t","h","e","n","t","i","c","a","t","i","o","n"," ","t","i","m","e","o","u","t">>) }

Min(a, b) == IF a < b THEN a ELSE b

\* withRetry up to the first test of its loop
NewRetry(config) ==
  [ pc |-> IF 0 <= config.maxRetries THEN "call" ELSE "thrown",
    config |-> config, attempt |-> 0, delay |-> config.baseDelay,
    calls |-> 0, successes |-> 0, slept |-> 0, lastRaw |-> NoError,
    lastError |-> IF 0 <= config.maxRetries
                    THEN LLMError("null", FALSE, NoError)
                    ELSE LLMError("unknown", FALSE, NoError) ]

WithRetry(config) ==
  /\ retry.pc = "idle"
  /\ retry' = NewRetry(config)
  /\ UNCHANGED << context, conversationHistory, isProcessing, turn, tickets, skipped, lastOp, breaker >>

\* await operation(): its result is returned, its rejection is classified
\* and either thrown or followed by the sleep.  The count of calls is capped
\* above what the loop allows.
RetryCall ==
  /\ retry.pc = "call"
  /\ retry.calls < MaxRetryConfig + 2
  /\ \/ retry' = [retry EXCEPT !.pc = "returned", !.calls = @ + 1, !.successes = @ + 1]
     \/ \E error \in OperationErrors :
          \E lastError \in { fromError(error) } :
            retry' = [retry EXCEPT
              !.pc = IF ~lastError.retryable \/ retry.attempt >= retry.config.maxRetries
                       THEN "thrown" ELSE "sleep",
              !.calls = @ + 1,
              !.lastRaw = error,
              !.lastError = lastError]
  /\ UNCHANGED << context, conversationHistory, isProcessing, turn, tickets, skipped, lastOp, breaker >>

\* The sleep that never advances the attempt
RetrySleepSameAttempt ==
  /\ retry.pc = "sleep"
  /\ retry' = [retry EXCEPT
       !.pc = "call",
       !.slept = @ + 1,
       !.delay = Min(retry.delay * retry.config.backoffMultiplier, retry.config.maxDelay)]
  /\ UNCHANGED << context, conversationHistory, isProcessing, turn, tickets, skipped, lastOp, breaker >>

\* The sleep is over: the next delay, attempt++ and the test of the loop,
\* after which only the final throw is left
RetrySleep ==
  /\ retry.pc = "sleep"
  /\ retry' = [retry EXCEPT
       !.pc = IF retry.attempt + 1 <= retry.config.maxRetries THEN "call" ELSE "thrown",
       !.attempt = @ + 1,
       !.slept = @ + 1,
       !.delay = Min(retry.delay * retry.config.backoffMultiplier, retry.config.maxDelay)]
  /\ UNCHANGED << context, conversationHistory, isProcessing, turn, tickets, skipped, lastOp, breaker >>

NextRetry ==
  \/ \E config \in RetryConfigs : WithRetry(config)
  \/ RetryCall
  \/ RetrySleep

SpecRetry == InitManager /\ [][NextRetry]_vars

\* The operation settles (withTimeout sees to it) and the timer of the sleep
\* fires
FairSpecRetry == SpecRetry /\ WF_vars(RetryCall) /\ WF_vars(RetrySleep)

\* ------------------------------------------------------------------------
\* withRetry(() => withTimeout(executeRequest(...), timeoutMs)): the request
\* and the timer of withTimeout.  lastOp counts the requests handed to the
\* provider that have not settled yet; withTimeout has no handle on the
\* request, and its promise settles once.
\* ------------------------------------------------------------------------
InitTimeout ==
  /\ context = NewContext
  /\ conversationHistory = << Message("system", S_SystemPrompt) >>
  /\ isProcessing = FALSE
  /\ turn = [c \in Callers |-> IdleTurn]
  /\ tickets = <<>>
  /\ skipped = FALSE
  /\ lastOp = [name |-> "executeRequest", outstanding |-> 0]
  /\ retry = NoRetry
  /\ breaker = NewBreaker

\* operation(): executeRequest sends the request and withTimeout sets its timer
StartRequest ==
  /\ retry.pc = "call"
  /\ retry.calls < MaxRetryConfig + 2
  /\ retry' = [retry EXCEPT !.pc = "await", !.calls = @ + 1]
  /\ lastOp' = [lastOp EXCEPT !.outstanding = @ + 1]
  /\ UNCHANGED << context, conversationHistory, isProcessing, turn, tickets, skipped, breaker >>

\* The request settles before the timer: clearTimeout, and withRetry goes on
\* with the result or with the classified rejection
RequestSettles ==
  /\ retry.pc = "await"
  /\ \/ retry' = [retry EXCEPT !.pc = "returned", !.successes = @ + 1]
     \/ \E error \in OperationErrors :
          \E lastError \in { fromError(error) } :
            retry' = [retry EXCEPT
              !.pc = IF ~lastError.retryable \/ retry.attempt >= retry.config.maxRetries
                       THEN "thrown" ELSE "sleep",
              !.lastRaw = error,
              !.lastError = lastError]
  /\ lastOp' = [lastOp EXCEPT !.outstanding = @ - 1]
  /\ UNCHANGED << context, conversationHistory, isProcessing, turn, tickets, skipped, breaker >>

\* The timer fires first: withTimeout rejects with a retryable timeout error
\* and the request stays with the provider
TimeoutFires ==
  /\ retry.pc = "await"
  /\ retry' = [retry EXCEPT
       !.pc = IF retry.attempt >= retry.config.maxRetries THEN "thrown" ELSE "sleep",
       !.lastRaw = NoError,
       !.lastError = LLMError("timeout", TRUE, NoError)]
  /\ UNCHANGED << context, conversationHistory, isProcessing, turn, tickets, skipped,
                  lastOp, breaker >>

\* A request whose timer has fired settles: resolve and reject of the
\* settled promise do nothing
LateSettles ==
  /\ lastOp.outstanding > (IF retry.pc = "await" THEN 1 ELSE 0)
  /\ lastOp' = [lastOp EXCEPT !.outstanding = @ - 1]
  /\ UNCHANGED << context, conversationHistory, isProcessing, turn, tickets, skipped,
                  retry, breaker >>

NextTimeout ==
  \/ \E config \in RetryConfigs : WithRetry(config)
  \/ StartRequest
  \/ RequestSettles
  \/ TimeoutFires
  \/ LateSettles
  \/ RetrySleep

SpecTimeout == InitTimeout /\ [][NextTimeout]_vars

\* ------------------------------------------------------------------------
\* AnthropicLLMProvider.complete inside a turn:
\* circuitBreaker.execute(() => withRetry(() => withTimeout(...), retryConfig))
\* ------------------------------------------------------------------------
\* new LLMError('Circuit breaker is open', SERVER_ERROR, false)
CircuitOpenError == LLMError("server_error", FALSE, NoError)

\* What execute found on entry: the state, the count of failures, the run
\* and whether the cooldown was over
Entry(b) ==
  [state |-> b.state, failureCount |-> b.failureCount, run |-> b.run,
   elapsed |-> b.now - b.lastFailureTime >= BreakerDefaults.resetTimeout]

\* execute counting a call it refuses as a failure
CompleteCountsRejection(c) ==
  /\ turn[c].pc = "llm"
  /\ breaker.pc = "idle"
  /\ IF /\ breaker.state = "OPEN"
        /\ breaker.now - breaker.lastFailureTime < BreakerDefaults.resetTimeout
       THEN /\ breaker' = [onFailure(breaker) EXCEPT
                 !.last = [kind |-> "rejected", entry |-> Entry(breaker),
                           error |-> CircuitOpenError, calls |-> 0,
                           at |-> breaker.now]]
            /\ turn' = [turn EXCEPT ![c].pc = "catch", ![c].failedAt = "llm"]
            /\ UNCHANGED retry
       ELSE /\ breaker' = [breaker EXCEPT
                 !.pc = "operation",
                 !.state = IF @ = "OPEN" THEN "HALF_OPEN" ELSE @,
                 !.successCount = IF breaker.state = "OPEN" THEN 0 ELSE @,
                 !.trials = IF breaker.state = "OPEN" THEN 0 ELSE @,
                 !.last = [kind |-> "admitted", entry |-> Entry(breaker)]]
            /\ retry' = NewRetry(DEFAULT_RETRY_CONFIG)
            /\ UNCHANGED turn
  /\ UNCHANGED << context, conversationHistory, isProcessing, tickets, skipped, lastOp >>

\* execute calling the operation whatever the state
CompleteWhileOpen(c) ==
  /\ turn[c].pc = "llm"
  /\ breaker.pc = "idle"
  /\ breaker' = [breaker EXCEPT
       !.pc = "operation",
       !.state = IF @ = "OPEN" THEN "HALF_OPEN" ELSE @,
       !.successCount = IF breaker.state = "OPEN" THEN 0 ELSE @,
       !.trials = IF breaker.state = "OPEN" THEN 0 ELSE @,
       !.last = [kind |-> "admitted", entry |-> Entry(breaker)]]
  /\ retry' = NewRetry(DEFAULT_RETRY_CONFIG)
  /\ UNCHANGED << context, conversationHistory, isProcessing, turn, tickets, skipped, lastOp >>

\* complete up to its first await: execute tests the state and either throws
\* at once, which the turn catches, or calls the operation, and withRetry
\* runs up to its first call of the provider
Complete(c) ==
  /\ turn[c].pc = "llm"
  /\ breaker.pc = "idle"
  /\ IF /\ breaker.state = "OPEN"
        /\ breaker.now - breaker.lastFailureTime < BreakerDefaults.resetTimeout
       THEN /\ breaker' = [breaker EXCEPT
                 !.last = [kind |-> "rejected", entry |-> Entry(breaker),
                           error |-> CircuitOpenError, calls |-> 0,
                           at |-> breaker.now]]
            /\ turn' = [turn EXCEPT ![c].pc = "catch", ![c].failedAt = "llm"]
            /\ UNCHANGED retry
       ELSE /\ breaker' = [breaker EXCEPT
                 !.pc = "operation",
                 !.state = IF @ = "OPEN" THEN "HALF_OPEN" ELSE @,
                 !.successCount = IF breaker.state = "OPEN" THEN 0 ELSE @,
                 !.trials = IF breaker.state = "OPEN" THEN 0 ELSE @,
                 !.last = [kind |-> "admitted", entry |-> Entry(breaker)]]
            /\ retry' = NewRetry(DEFAULT_RETRY_CONFIG)
            /\ UNCHANGED turn
  /\ UNCHANGED << context, conversationHistory, isProcessing, tickets, skipped, lastOp >>

\* withRetry has returned or thrown: onSuccess and the reply to the turn, or
\* onFailure and the rethrow, which the turn catches
CompleteSettles(c) ==
  /\ turn[c].pc = "llm"
  /\ breaker.pc = "operation"
  /\ retry.pc \in {"returned", "thrown"}
  /\ IF retry.pc = "returned"
       THEN /\ breaker' = [onSuccess(breaker) EXCEPT
                 !.pc = "idle", !.run = 0,
                 !.trials = IF breaker.state = "HALF_OPEN" THEN @ + 1 ELSE @,
                 !.last = [kind |-> "returned", entry |-> breaker.last.entry,
                           error |-> retry.lastError, calls |-> retry.calls,
                           at |-> breaker.now]]
            /\ turn' = [turn EXCEPT ![c].pc = "tools", ![c].content = S_Reply,
                                    ![c].toolCalls = <<>>]
       ELSE /\ breaker' = [onFailure(breaker) EXCEPT
                 !.pc = "idle", !.run = @ + 1,
                 !.last = [kind |-> "threw", entry |-> breaker.last.entry,
                           error |-> retry.lastError, calls |-> retry.calls,
                           at |-> breaker.now]]
            /\ turn' = [turn EXCEPT ![c].pc = "catch", ![c].failedAt = "llm"]
  /\ retry' = NoRetry
  /\ UNCHANGED << context, conversationHistory, isProcessing, tickets, skipped, lastOp >>

\* Date.now() advances by half the cooldown, between two turns or during
\* the sleep of withRetry
Tick ==
  /\ ~isProcessing \/ retry.pc = "sleep"
  /\ breaker.now < MaxTicks * (BreakerDefaults.resetTimeout \div 2)
  /\ breaker' = [breaker EXCEPT !.now = @ + BreakerDefaults.resetTimeout \div 2]
  /\ UNCHANGED << context, conversationHistory, isProcessing, turn, tickets, skipped,
                  lastOp, retry >>

\* One caller: an invocation that overlaps another returns at the guard and
\* never reaches the provider
NextBreaker ==
  \/ \E c \in {1} :
       \/ /\ isProcessing \/ TurnsStarted < MaxBreakerTurns
          /\ ProcessUserInput(c, S_J)
       \/ Complete(c)
       \/ CompleteSettles(c)
       \/ Respond(c)
       \/ Account(c)
       \/ Catch(c)
       \/ Finally(c)
  \/ RetryCall
  \/ RetrySleep
  \/ Tick

SpecBreaker == Init /\ [][NextBreaker]_vars

\* ------------------------------------------------------------------------
\* The pure operations of state.ts, validation.ts and IssueClassifier.ts and
\* the context-update step of VoiceAgent.ts, each applied once to an input:
\* lastOp holds the input, then the operation's name, argument and result
\* ------------------------------------------------------------------------
InitFunctions ==
  /\ context = NewContext
  /\ conversationHistory = << Message("system", S_SystemPrompt) >>
  /\ isProcessing = FALSE
  /\ turn = [ c \in Callers |-> IdleTurn ]
  /\ tickets = <<>>
  /\ skipped = FALSE
  /\ retry = NoRetry
  /\ breaker = NewBreaker
  /\ \/ \E description \in { S_IssuePrinter, S_IssueVague,
                            <<" "," ","E","m","a","i","l"," ","W","I","F","I"," ","s","l","o","w"," ">>, <<"w","i","f","i"," ","s","l","o","w">>,
                            <<"s","l","o","w"," ","i","n","t","e","r","n","e","t"," ","c","o","n","n","e","c","t","i","o","n">> } :
          \E active \in SUBSET { service.issueType : service \in Range(getAllServices) } :
            lastOp = [ name |-> "input", fn |-> "classify",
                       arg |-> [ description |-> description,
                                 services |-> SelectSeq(getAllServices,
                                                LAMBDA service : service.issueType \in active) ] ]
     \/ \E fields \in [ {"name", "email", "phone", "address", "issue", "issueType"}
                          -> {Undefined, S_JohnDoe} ] :
          \E price \in {NoPrice, 0, 10} :
            \E fn \in {"isDataComplete", "getMissingFields"} :
              lastOp = [ name |-> "input", fn |-> fn,
                         arg |-> [ NewContext EXCEPT
                                     !.name = fields["name"], !.email = fields["email"],
                                     !.phone = fields["phone"], !.address = fields["address"],
                                     !.issue = fields["issue"],
                                     !.issueType = fields["issueType"], !.price = price ] ]
     \/ \E fromState \in ConversationState :
          \E toState \in ConversationState :
            lastOp = [ name |-> "input", fn |-> "isValidTransition",
                       arg |-> [ fromState |-> fromState, toState |-> toState ] ]
     \/ \E phone \in { S_Phone10, S_PhoneDash, S_Phone6, S_PhoneWords, <<>>,
                      <<"(","5","1","0",")"," ","5","5","5","-","1","2","3","4">>, <<" "," ","+","1"," ","(","5","1","0",")"," ","5","5","5","-","1","2","3","4"," "," ">>, <<"1","2","3","4","5","6","7","8","9">>,
                      <<" ","4","4"," ","2","0"," ","7","9","4","6"," ","0","9","5","8"," ">>, <<"1","2","3","4","5","6","7","8","9","0","1","2","3","4","5">>, <<"1","2","3","4","5","6","7","8","9","0","1","2","3","4","5","6">>,
                      <<"e","x","t","."," ","5","1","0","5","5","5","1","2","3","4"," ","#","1","2","3","4","5">>, <<"e","x","t","."," ","5","1","0","5","5","5","1","2","3","4"," ","#","1","2","3","4","5","6">> } :
          lastOp = [ name |-> "input", fn |-> "validatePhone", arg |-> phone ]
     \/ \E state \in {"COLLECTING_EMAIL", "COLLECTING_PHONE", "COLLECTING_ADDRESS"} :
          \E userMessage \in { S_JohnEmail, S_UpperEmail, S_NotAnEmail, S_Phone10,
                               S_PhoneDash, S_Phone6, S_Address, S_Short,
                               <<"i","t"," ","i","s"," ","J","o","h","n","@","E","x","a","m","p","l","e",".","c","o","m"," ","t","h","a","n","k","s">>,
                               <<"c","a","l","l"," ","5","1","0",".","5","5","5",".","1","2","3","4"," ","p","l","e","a","s","e">>,
                               <<"+","1"," ","5","1","0"," ","5","5","5"," ","1","2","3","4">>,
                               <<" "," "," ","1","2"," ","E","l","m"," ","R","o","a","d"," "," "," ">> } :
            lastOp = [ name |-> "input", fn |-> "updateContextFromUserInput",
                       arg |-> [ context |-> [NewContext EXCEPT !.state = state],
                                 userMessage |-> userMessage, dbOk |-> TRUE ] ]
     \/ \E classified \in BOOLEAN, dbOk \in BOOLEAN :
          \E userMessage \in { S_IssuePrinter, S_IssueVague, S_Short,
                               <<" "," ","E","m","a","i","l"," ","W","I","F","I"," ","s","l","o","w"," ">>, <<"w","i","f","i"," ","s","l","o","w">>,
                               <<"o","p","t","i","o","n"," ","2">>, <<"t","h","e"," ","s","e","c","o","n","d"," ","o","n","e">> } :
            lastOp = [ name |-> "input", fn |-> "updateContextFromUserInput",
                       arg |-> [ context |->
                                   [NewContext EXCEPT
                                      !.state = "COLLECTING_ISSUE",
                                      !.name = S_JohnDoe, !.email = S_JohnEmail,
                                      !.phone = S_Phone10, !.address = S_Address,
                                      !.issue = S_IssueVague,
                                      !.issueType = IF classified THEN S_printer_problems
                                                    ELSE Undefined,
                                      !.price = IF classified THEN 10 ELSE NoPrice],
                                 userMessage |-> userMessage, dbOk |-> dbOk ] ]
     \/ \E userMessage \in { S_Yes, S_Short, <<"C","O","N","F","I","R","M">>, <<"T","h","a","t","'","s"," ","R","i","g","h","t">>, <<"N","o">>,
                              <<"n","o",","," ","t","h","a","t"," ","i","s"," ","n","o","t"," ","c","o","r","r","e","c","t">>,
                              <<"t","h","e"," ","a","d","d","r","e","s","s"," ","i","s"," ","i","n","c","o","r","r","e","c","t">>,
                              <<"I"," ","n","e","e","d"," ","a"," ","c","o","r","r","e","c","t","i","o","n">>, <<"c","h","a","n","g","e"," ","m","y"," ","p","h","o","n","e"," ","n","u","m","b","e","r">> } :
          lastOp = [ name |-> "input", fn |-> "updateContextFromUserInput",
                     arg |-> [ context |->
                                 [NewContext EXCEPT
                                    !.state = "CONFIRMING_DETAILS",
                                    !.name = S_JohnDoe, !.email = S_JohnEmail,
                                    !.phone = S_Phone10, !.address = S_Address,
                                    !.issue = S_IssuePrinter,
                                    !.issueType = S_printer_problems, !.price = 10],
                               userMessage |-> userMessage, dbOk |-> TRUE ] ]
     \/ \E state \in {"CONFIRMING_DETAILS", "TICKET_CREATION"}, dbOk \in BOOLEAN :
          \E toolCall \in ProbeToolCalls :
            lastOp = [ name |-> "input", fn |-> "handleToolResult",
                       arg |-> [ context |->
                                   [NewContext EXCEPT
                                      !.state = state,
                                      !.name = S_JohnDoe, !.email = S_JohnEmail,
                                      !.phone = S_Phone10, !.address = S_Address,
                                      !.issue = S_IssuePrinter,
                                      !.issueType = S_printer_problems, !.price = 10],
                                 toolCall |-> toolCall, dbOk |-> dbOk ] ]

Apply(fn, result) ==
  /\ lastOp' = [ name |-> fn, arg |-> lastOp.arg, result |-> result ]
  /\ UNCHANGED << context, conversationHistory, isProcessing, turn, tickets, skipped, retry, breaker >>

ClassifyOp ==
  /\ lastOp.name = "input" /\ lastOp.fn = "classify"
  /\ Apply("classify", classify(lastOp.arg.description, lastOp.arg.services))

IsDataCompleteOp ==
  /\ lastOp.name = "input" /\ lastOp.fn = "isDataComplete"
  /\ Apply("isDataComplete", isDataComplete(lastOp.arg))

GetMissingFieldsOp ==
  /\ lastOp.name = "input" /\ lastOp.fn = "getMissingFields"
  /\ Apply("getMissingFields", getMissingFields(lastOp.arg))

IsValidTransitionOp ==
  /\ lastOp.name = "input" /\ lastOp.fn = "isValidTransition"
  /\ Apply("isValidTransition", isValidTransition(lastOp.arg.fromState, lastOp.arg.toState))

ValidatePhoneOp ==
  /\ lastOp.name = "input" /\ lastOp.fn = "validatePhone"
  /\ Apply("validatePhone", validatePhone(lastOp.arg))

\* dbOk matters in COLLECTING_ISSUE alone, where the classifier reads the
\* catalog
UpdateContextOp ==
  /\ lastOp.name = "input" /\ lastOp.fn = "updateContextFromUserInput"
  /\ Apply("updateContextFromUserInput",
           updateContextFromUserInput(lastOp.arg.context, lastOp.arg.userMessage,
                                      lastOp.arg.dbOk))

\* One iteration of the tool loop: execute, then handleToolResult on its result
HandleToolResultOp ==
  /\ lastOp.name = "input" /\ lastOp.fn = "handleToolResult"
  /\ Apply("handleToolResult",
           [ threw |-> FALSE,
             context |-> handleToolResult(
                           lastOp.arg.context, lastOp.arg.toolCall.name,
                           execute(lastOp.arg.toolCall.name, lastOp.arg.toolCall.arguments,
                                   lastOp.arg.dbOk, 1).result) ])

NextFunctions ==
  \/ ClassifyOp
  \/ IsDataCompleteOp
  \/ GetMissingFieldsOp
  \/ IsValidTransitionOp
  \/ ValidatePhoneOp
  \/ UpdateContextOp
  \/ HandleToolResultOp

SpecFunctions == InitFunctions /\ [][NextFunctions]_vars

\* ------------------------------------------------------------------------
\* Properties
\* ------------------------------------------------------------------------
\* An invocation of processUserInput that is past its guard and not yet
\* through its finally block
InTurn(c) == turn[c].pc # "idle"

\* C1: at most one invocation is ever in its processing phase, the flag is
\* set exactly while one is, an invocation enters the phase only when the
\* flag is clear, and an invocation made while it is set returns at once: it
\* changes no state, appends nothing to the history, creates no ticket and
\* moves no other invocation.
C1_ReentrancyGuard ==
  /\ [](Cardinality({ c \in Callers : InTurn(c) }) <= 1)
  /\ [](isProcessing <=> \E c \in Callers : InTurn(c))
  /\ [][ \A c \in Callers : (~InTurn(c) /\ turn'[c].pc # "idle") => ~isProcessing ]_vars
  /\ [][ (~skipped /\ skipped') =>
           /\ isProcessing
           /\ UNCHANGED << context, conversationHistory, isProcessing, turn, tickets >> ]_vars

\* An invocation was skipped while another one is in its processing phase
C1_Witness == skipped /\ \E c \in Callers : InTurn(c)

\* C2: every invocation that enters its processing phase leaves it with the
\* flag reset, whatever failed in it, the apology included; and the flag is
\* never set when no invocation is in its processing phase, so a finished
\* turn never makes a later utterance be skipped.
C2_TurnReturnsToIdle ==
  /\ TurnPending ~> (~TurnPending /\ ~isProcessing)
  /\ [](~TurnPending => ~isProcessing)

\* A turn whose apology could not be spoken has reached its finally block
C2_Witness ==
  \E c \in Callers : turn[c].pc = "finally" /\ turn[c].escaped

\* C3: a cooperative caller whose language-model calls all succeed has gone
\* through CONFIRMING_DETAILS to TICKET_CREATION (or beyond) once the seven
\* turns of greeting, the five fields and the confirmation are over.
C3_ForwardProgress ==
  (TurnsStarted = MaxValidTurns /\ \A c \in Callers : ~InTurn(c)) =>
    context.state \in {"TICKET_CREATION", "CONFIRMATION", "ENDED"}

\* C4: the first turn of a fresh session, with the utterance "Hi, I'm John
\* Doe", ends in COLLECTING_EMAIL with the name "John Doe".
C4_GreetingWithName ==
  \A c \in Callers :
    ( /\ turn[c].pc = "finally"
      /\ turn[c].startContext = NewContext
      /\ turn[c].userMessage = S_HiJohn ) =>
      (context.state = "COLLECTING_EMAIL" /\ context.name = S_JohnDoe)

\* C5: every ticket in the repository was written while the conversation
\* state was TICKET_CREATION.
C5_TicketOnlyInTicketCreation ==
  \A i \in DOMAIN tickets : tickets[i].atState = "TICKET_CREATION"

\* C6: once create_ticket has returned success the context holds ticketId and
\* ticketNumber and the state is CONFIRMATION; and whenever ticketNumber is
\* set the state is CONFIRMATION or ENDED.
C6_TicketNumberImpliesConfirmation ==
  /\ Truthy(context.ticketNumber) => context.state \in {"CONFIRMATION", "ENDED"}
  /\ \A c \in Callers :
       ( /\ turn[c].lastTool.name = "create_ticket"
         /\ JsTrue(turn[c].lastTool.result, "success") ) =>
         /\ Truthy(context.ticketId)
         /\ Truthy(context.ticketNumber)
         /\ context.state = "CONFIRMATION"

\* C7: a create_ticket call whose arguments carry the five fields as strings,
\* at least one of them failing its validator, returns success false with a
\* list "errors" and writes no ticket.
C7_InvalidTicketArgsListErrors ==
  \A c \in Callers :
    Let(turn[c].lastTool,
      LAMBDA call :
        ( /\ call.name = "create_ticket"
          /\ call.arguments.kind = "object"
          /\ \A k \in {"name", "email", "phone", "address", "issue"} :
               HasString(call.arguments.obj, k)
          /\ \/ ~validateName(call.arguments.obj.name.v).isValid
             \/ ~validateEmail(call.arguments.obj.email.v).isValid
             \/ ~validatePhone(call.arguments.obj.phone.v).isValid
             \/ ~validateAddress(call.arguments.obj.address.v).isValid
             \/ ~validateIssue(call.arguments.obj.issue.v).isValid ) =>
          /\ call.result.success = FALSE
          /\ "errors" \in DOMAIN call.result
          /\ ~call.written)

\* C8: execute throws for no tool name, argument string or repository
\* failure: the turn never reaches its fallback because of a tool call, and
\* a call of an unknown tool, with malformed JSON, with arguments its schema
\* rejects, or whose repository call fails returns success false with an
\* error message.
C8_ExecuteNeverThrows ==
  \A c \in Callers :
    /\ turn[c].failedAt # "tool"
    /\ (turn[c].pc = "tools" /\ turn[c].toolCalls # <<>>) =>
         \A dbOk \in BOOLEAN :
           Let(Head(turn[c].toolCalls),
             LAMBDA toolCall :
               Let(execute(toolCall.name, toolCall.arguments, dbOk, Len(tickets) + 1),
                 LAMBDA outcome :
                   /\ ~outcome.threw
                   /\ "success" \in DOMAIN outcome.result
                   /\ ( \/ toolCall.name \notin ToolNames
                        \/ toolCall.arguments.kind = "malformed"
                        \/ Dispatch(toolCall.name, toolCall.arguments, dbOk,
                                    Len(tickets) + 1).threw ) =>
                        /\ outcome.result.success = FALSE
                        /\ "error" \in DOMAIN outcome.result))
    /\ ( /\ turn[c].lastTool # NoTool
         /\ \/ turn[c].lastTool.name \notin ToolNames
            \/ turn[c].lastTool.arguments.kind = "malformed" ) =>
         /\ turn[c].lastTool.result.success = FALSE
         /\ "error" \in DOMAIN turn[c].lastTool.result

\* A tool call has failed with an error message and the loop is at the next
\* tool call of the same turn
C8_Witness ==
  \E c \in Callers :
    /\ turn[c].pc = "tools"
    /\ turn[c].toolCalls # <<>>
    /\ turn[c].lastTool # NoTool
    /\ turn[c].lastTool.result.success = FALSE
    /\ "error" \in DOMAIN turn[c].lastTool.result

\* C9: a turn that failed leaves the context as it was when the turn began,
\* and has spoken the apology exactly once.
C9_FailedTurnChangesNothing ==
  \A c \in Callers :
    (turn[c].pc = "finally" /\ turn[c].failedAt # "none") =>
      /\ context = turn[c].startContext
      /\ Len(SelectSeq(turn[c].said, LAMBDA text : text = S_Apology)) = 1

\* C10: a turn that got as far as its accounting completes as a success: a
\* failed log write does not take it to the fallback and no apology is spoken.
C10_LogFailureIsLocal ==
  \A c \in Callers :
    (turn[c].pc = "finally" /\ turn[c].tracked) =>
      /\ turn[c].failedAt = "none"
      /\ \A i \in DOMAIN turn[c].said : turn[c].said[i] # S_Apology

\* C11: a TTS failure while the reply is delivered never takes the turn to
\* its fallback: a turn whose reply could not be spoken still runs its
\* accounting, speaks no apology and ends without an exception.
C11_TtsFailureSwallowed ==
  \A c \in Callers :
    /\ turn[c].failedAt # "tts"
    /\ ( /\ turn[c].pc = "finally"
         /\ turn[c].content # <<>>
         /\ turn[c].failedAt \notin {"update", "llm", "tool", "log"}
         /\ \A i \in DOMAIN turn[c].said : turn[c].said[i] # turn[c].content ) =>
         /\ turn[c].tracked
         /\ ~turn[c].escaped
         /\ \A i \in DOMAIN turn[c].said : turn[c].said[i] # S_Apology

\* C12: a transitionTo, handleError or end whose transition is not in the
\* table throws and leaves the whole context as it found it.
C12_InvalidTransitionChangesNothing ==
  ( /\ lastOp.name \in {"transitionTo", "handleError", "end"}
    /\ ~isValidTransition(
          lastOp.before.state,
          CASE lastOp.name = "transitionTo" -> lastOp.arg
            [] lastOp.name = "handleError" -> "ERROR_RECOVERY"
            [] lastOp.name = "end" -> "ENDED") ) =>
    /\ lastOp.threw
    /\ context = lastOp.before

\* C13: the state is always one of the eleven states, and every operation of
\* the manager that changes it makes a transition of the table.
C13_ValidTransitionsOnly ==
  /\ context.state \in ConversationState
  /\ (lastOp.name # "none" /\ context.state # lastOp.before.state) =>
       isValidTransition(lastOp.before.state, context.state)

\* C14: the table has no transition out of ENDED, and a transitionTo,
\* advanceToNextState, handleError, end, utterance or tool result that finds
\* the state ENDED leaves it ENDED.
C14_EndedIsTerminal ==
  /\ \A s \in ConversationState : ~isValidTransition("ENDED", s)
  /\ ( /\ lastOp.name \in { "transitionTo", "advanceToNextState", "handleError", "end",
                            "updateContextFromUserInput", "handleToolResult" }
       /\ lastOp.before.state = "ENDED" ) =>
       context.state = "ENDED"

\* A transition has been requested of a session that had ended
C14_Witness ==
  /\ lastOp.name = "transitionTo"
  /\ lastOp.before.state = "ENDED"
  /\ lastOp.arg = "GREETING"
  /\ lastOp.threw

\* C15: handleError called in any state but ENDED does not throw, leaves the
\* state ERROR_RECOVERY and lastError equal to its description.
C15_ErrorRecoveryEverywhere ==
  (lastOp.name = "handleError" /\ lastOp.before.state # "ENDED") =>
    /\ ~lastOp.threw
    /\ context.state = "ERROR_RECOVERY"
    /\ context.lastError = lastOp.arg

\* C16: advanceToNextState never throws; where the state has successors it
\* moves to the first one, an allowed transition, and in ENDED it leaves the
\* context as it found it.
C16_AdvanceNeverThrows ==
  lastOp.name = "advanceToNextState" =>
    /\ ~lastOp.threw
    /\ IF validTransitions[lastOp.before.state] = <<>>
         THEN context = lastOp.before
         ELSE /\ context.state = validTransitions[lastOp.before.state][1]
              /\ isValidTransition(lastOp.before.state, context.state)
              /\ context = [lastOp.before EXCEPT !.state = context.state,
                                                 !.turnCount = @ + 1]

\* advanceToNextState has been called in ENDED
C16_Witness ==
  /\ lastOp.name = "advanceToNextState"
  /\ lastOp.before.state = "ENDED"

\* C17: retryCount is never negative; a turn whose utterance is not a valid
\* name while the name is being collected ends with retryCount one higher
\* than it began with, and a turn that advanced the state ends with 0.
C17_RetryCount ==
  /\ context.retryCount \in Nat
  /\ \A c \in Callers :
       turn[c].pc = "finally" =>
         /\ ( /\ turn[c].startContext.state \in {"GREETING", "COLLECTING_NAME"}
              /\ ~Truthy(turn[c].startContext.name)
              /\ ~validateName(turn[c].userMessage).isValid ) =>
              context.retryCount = turn[c].startContext.retryCount + 1
         /\ context.state # turn[c].startContext.state => context.retryCount = 0

\* C18: no operation leaves absent a collected field that it found set.
C18_FieldsNeverCleared ==
  lastOp.name # "none" =>
    /\ \A f \in {"name", "email", "phone", "address", "issue", "issueType"} :
         Truthy(lastOp.before[f]) => Truthy(context[f])
    /\ lastOp.before.price # NoPrice => context.price # NoPrice

\* C19: withRetry calls the operation at most maxRetries + 1 times, four
\* with the default configuration; the first success is returned and nothing
\* is attempted after it; every call of withRetry ends, by a return or a
\* throw; and when the attempts are exhausted what it throws is the last
\* error, classified.
C19_BoundedRetries ==
  /\ [](retry.pc # "idle" =>
          /\ retry.calls <= retry.config.maxRetries + 1
          /\ retry.config = DEFAULT_RETRY_CONFIG => retry.calls <= 4
          /\ retry.successes <= 1
          /\ retry.successes = 1 => retry.pc = "returned"
          /\ (retry.pc = "thrown" /\ retry.calls > 0) =>
               retry.lastError = fromError(retry.lastRaw))
  /\ [][retry.pc \in {"returned", "thrown"} => retry' = retry]_vars
  /\ (retry.pc \in {"call", "sleep"}) ~> (retry.pc \in {"returned", "thrown"})

\* The default configuration has used up its four attempts
C19_Witness ==
  /\ retry.pc = "thrown"
  /\ retry.config = DEFAULT_RETRY_CONFIG
  /\ retry.calls = 4
  /\ retry.slept = 3
  /\ retry.lastError.retryable

\* C20: a failure of a transient class is followed by the sleep while
\* attempts are left, and a failure whose message marks it as a quota
\* exhaustion or an authentication failure is thrown at once, not retryable.
C20_AuthAndQuotaFailImmediately ==
  retry.pc \in {"sleep", "thrown"} =>
    /\ ( /\ retry.lastError.type \in {"timeout", "rate_limit", "server_error", "network_error"}
         /\ retry.attempt < retry.config.maxRetries ) => retry.pc = "sleep"
    /\ ( \E part \in { <<"q","u","o","t","a">>, <<"b","i","l","l","i","n","g">>, <<"4","0","1">>, <<"4","0","3">>, <<"a","u","t","h","e","n","t","i","c","a","t","i","o","n">> } :
            Includes(retry.lastRaw.message, part) ) =>
         /\ retry.pc = "thrown"
         /\ ~retry.lastError.retryable

\* C21 (as amended): the breaker tracks consecutive failures across turns: a
\* successful call while CLOSED resets the failure count, so that while
\* CLOSED the count is the length of the current run of failures, and the
\* breaker moves from CLOSED to OPEN at the failure with which that run
\* reaches failureThreshold (3), and not before
C21_OpensAtThreshold ==
  /\ breaker.state = "CLOSED" =>
       /\ breaker.failureCount = breaker.run
       /\ breaker.run < BreakerDefaults.failureThreshold
  /\ (breaker.last.kind = "returned" /\ breaker.last.entry.state = "CLOSED") =>
       /\ breaker.state = "CLOSED"
       /\ breaker.failureCount = 0
  /\ (breaker.last.kind = "threw" /\ breaker.last.entry.state = "CLOSED") =>
       /\ breaker.run = breaker.last.entry.run + 1
       /\ breaker.state = "OPEN" <=> breaker.run = BreakerDefaults.failureThreshold
       /\ breaker.state # "OPEN" => breaker.state = "CLOSED"

\* After a successful turn, three turns in a row failed at the provider and
\* the third opened the circuit
C21_Witness ==
  /\ \E i \in DOMAIN conversationHistory : conversationHistory[i].role = "assistant"
  /\ breaker.last.kind = "threw"
  /\ breaker.last.entry.state = "CLOSED"
  /\ breaker.last.entry.run = 2
  /\ breaker.state = "OPEN"

\* C21 as stated: the breaker moves from CLOSED to OPEN once the run of
\* failures exceeds failureThreshold, and not before
C21_OpensAboveThreshold ==
  (breaker.last.kind = "threw" /\ breaker.last.entry.state = "CLOSED") =>
    (breaker.state = "OPEN" <=> breaker.run > BreakerDefaults.failureThreshold)

\* What the catch block makes of a failed call of the provider: nothing of
\* the reply, and the apology once
Fallback(c) ==
  /\ turn[c].failedAt = "llm"
  /\ turn[c].content = <<>>
  /\ turn[c].toolCalls = <<>>
  /\ ~turn[c].tracked
  /\ turn[c].pc = "catch" => turn[c].said = <<>>
  /\ turn[c].pc = "finally" =>
       \/ turn[c].said = << S_Apology >> /\ ~turn[c].escaped
       \/ turn[c].said = <<>> /\ turn[c].escaped

\* C22: while the breaker is OPEN and the cooldown has not elapsed, every
\* call fails at once with the circuit-open error, which no failure of the
\* provider produces, without a call of the provider and without a retry;
\* the breaker is left as it was, and the turn goes through the same
\* fallback, the apology once, as a turn whose retries were exhausted
C22_OpenFailsFast ==
  /\ breaker.last.kind # "none" =>
       (breaker.last.kind = "rejected"
          <=> (breaker.last.entry.state = "OPEN" /\ ~breaker.last.entry.elapsed))
  /\ breaker.last.kind = "rejected" =>
       /\ breaker.last.error = CircuitOpenError
       /\ breaker.last.calls = 0
       /\ retry = NoRetry
       /\ breaker.pc = "idle"
       /\ breaker.state = "OPEN"
       /\ breaker.failureCount = breaker.last.entry.failureCount
  /\ breaker.last.kind \in {"returned", "threw"} => breaker.last.calls >= 1
  /\ breaker.last.kind = "threw" => breaker.last.error # CircuitOpenError
  /\ breaker.last.kind \in {"rejected", "threw"} =>
       \A c \in Callers : turn[c].pc \in {"catch", "finally"} => Fallback(c)
  /\ \A c \in Callers :
       (turn[c].pc \in {"catch", "finally"} /\ turn[c].failedAt = "llm") =>
          breaker.last.kind \in {"rejected", "threw"}

\* A call was refused by the open circuit and the turn has spoken the apology
C22_Witness ==
  /\ breaker.last.kind = "rejected"
  /\ \E c \in Callers : turn[c].pc = "finally" /\ turn[c].said = << S_Apology >>

\* C23: after the cooldown the breaker lets trial calls through in
\* HALF_OPEN: it returns to CLOSED, with the failure count 0, only after
\* halfOpenSuccessThreshold (2) trial calls have succeeded, and a trial call
\* that fails sends it back to OPEN with the cooldown counted from that
\* failure
C23_HalfOpenTrials ==
  /\ breaker.state = "HALF_OPEN" =>
       /\ breaker.trials < BreakerDefaults.halfOpenSuccessThreshold
       /\ breaker.successCount = breaker.trials
  /\ (breaker.last.kind # "none" /\ breaker.last.kind # "rejected"
        /\ breaker.last.entry.state = "OPEN") => breaker.last.entry.elapsed
  /\ (breaker.last.kind = "admitted" /\ breaker.last.entry.state # "CLOSED") =>
       breaker.state = "HALF_OPEN"
  /\ (breaker.last.kind = "returned" /\ breaker.last.entry.state # "CLOSED") =>
       /\ breaker.state = "CLOSED" <=> breaker.trials = BreakerDefaults.halfOpenSuccessThreshold
       /\ breaker.state # "CLOSED" => breaker.state = "HALF_OPEN"
       /\ breaker.state = "CLOSED" => breaker.failureCount = 0
  /\ (breaker.last.kind = "threw" /\ breaker.last.entry.state # "CLOSED") =>
       /\ breaker.state = "OPEN"
       /\ breaker.lastFailureTime = breaker.last.at

\* The second trial call succeeded and closed the circuit
C23_Witness ==
  /\ breaker.last.kind = "returned"
  /\ breaker.last.entry.state = "HALF_OPEN"
  /\ breaker.state = "CLOSED"
  /\ breaker.trials = 2

\* C24: for every description and every list of active catalog entries, with
\* score = (sum of the lengths of the matched keywords) x (number of matched
\* keywords), classify returns the issue type and price of the top-scoring
\* entry with confidence high when top > 2 x second and medium when
\* second < top <= 2 x second (second = 0 when one entry matches); when no
\* entry matches or top = second it returns confidence low with method
\* clarification_needed and no catalog issue type; confidence is low exactly
\* when the method is clarification_needed
C24_ClassifyConfidence ==
  lastOp.name = "classify" =>
    LET description == Trim(ToLower(lastOp.arg.description))
        services == lastOp.arg.services
        result == lastOp.result
        Matched(i) == { k \in DOMAIN services[i].keywords :
                          Includes(description, ToLower(services[i].keywords[k])) }
        matching == { i \in DOMAIN services : Matched(i) # {} }
        Score(i) == SumLen([ k \in DOMAIN services[i].keywords |->
                               IF k \in Matched(i) THEN services[i].keywords[k] ELSE <<>> ])
                    * Cardinality(Matched(i))
        best == CHOOSE i \in matching : \A j \in matching : Score(j) <= Score(i)
        top == Score(best)
        second == IF matching \ {best} = {} THEN 0
                  ELSE Score(CHOOSE i \in matching \ {best} :
                               \A j \in matching \ {best} : Score(j) <= Score(i))
        ofTop == /\ result.method = "keyword"
                 /\ \E i \in matching : /\ Score(i) = top
                                        /\ result.issueType = services[i].issueType
                                        /\ result.price = services[i].price
    IN /\ (matching # {} /\ top > 2 * second) => (result.confidence = "high" /\ ofTop)
       /\ (matching # {} /\ second < top /\ top <= 2 * second)
            => (result.confidence = "medium" /\ ofTop)
       /\ (matching = {} \/ top = second)
            => /\ result.confidence = "low"
               /\ result.method = "clarification_needed"
               /\ \A i \in DOMAIN services : result.issueType # services[i].issueType
       /\ result.confidence = "low" <=> result.method = "clarification_needed"

\* A narrow win among several matching entries was classified
C24_Witness ==
  /\ lastOp.name = "classify"
  /\ Len(lastOp.arg.services) = 4
  /\ lastOp.result.confidence = "medium"
  /\ lastOp.result.price = 15

\* C25: isDataComplete is true iff name, email, phone, address, issue and
\* issueType are all present and the price is set; a price of 0 counts as
\* set, and an unset price makes it false whatever the other fields are
C25_DataComplete ==
  lastOp.name = "isDataComplete" =>
    LET present == \A field \in {"name", "email", "phone", "address", "issue", "issueType"} :
                     lastOp.arg[field] # Undefined
    IN /\ lastOp.result <=> (present /\ lastOp.arg.price # NoPrice)
       /\ (present /\ lastOp.arg.price = 0) => lastOp.result
       /\ lastOp.arg.price = NoPrice => ~lastOp.result

\* A context with every field and the price 0 was found complete
C25_Witness ==
  /\ lastOp.name = "isDataComplete"
  /\ lastOp.arg.price = 0
  /\ lastOp.result

\* C26: getMissingFields returns exactly the labels of the absent fields
\* among name, email, phone, address, issue (labelled "issue description"),
\* in that order and without duplicates; a fresh context gives all five and
\* a field that is set is never listed
C26_MissingFields ==
  lastOp.name = "getMissingFields" =>
    LET fields == << "name", "email", "phone", "address", "issue" >>
        Label(field) == IF field = "issue" THEN "issue description" ELSE field
        absent == SelectSeq(fields, LAMBDA field : lastOp.arg[field] = Undefined)
    IN /\ lastOp.result = [ i \in DOMAIN absent |-> Label(absent[i]) ]
       /\ \A i, j \in DOMAIN lastOp.result : lastOp.result[i] = lastOp.result[j] => i = j
       /\ \A i \in DOMAIN fields :
            lastOp.arg[fields[i]] # Undefined => Label(fields[i]) \notin Range(lastOp.result)
       /\ lastOp.arg = NewContext
            => lastOp.result = << "name", "email", "phone", "address", "issue description" >>

\* The missing fields of a context with the name and the email set
C26_Witness ==
  /\ lastOp.name = "getMissingFields"
  /\ lastOp.arg.name # Undefined /\ lastOp.arg.email # Undefined
  /\ lastOp.result = << "phone", "address", "issue description" >>

\* C27 (as amended): isValidTransition(ERROR_RECOVERY, s) is true exactly
\* for GREETING, the five collection states, CONFIRMING_DETAILS and ENDED
C27_ErrorRecoveryTargets ==
  (lastOp.name = "isValidTransition" /\ lastOp.arg.fromState = "ERROR_RECOVERY") =>
    (lastOp.result <=>
       lastOp.arg.toState \in { "GREETING", "COLLECTING_NAME", "COLLECTING_EMAIL",
                                "COLLECTING_PHONE", "COLLECTING_ADDRESS",
                                "COLLECTING_ISSUE", "CONFIRMING_DETAILS", "ENDED" })

\* The transition from ERROR_RECOVERY to CONFIRMING_DETAILS was found valid
C27_Witness ==
  /\ lastOp.name = "isValidTransition"
  /\ lastOp.arg = [ fromState |-> "ERROR_RECOVERY", toState |-> "CONFIRMING_DETAILS" ]
  /\ lastOp.result

\* C27 as stated: isValidTransition(ERROR_RECOVERY, s) is true for GREETING,
\* the five collection states, CONFIRMING_DETAILS, TICKET_CREATION,
\* CONFIRMATION and ENDED
C27_ErrorRecoveryResumesAnywhere ==
  (/\ lastOp.name = "isValidTransition"
   /\ lastOp.arg.fromState = "ERROR_RECOVERY"
   /\ lastOp.arg.toState \in { "GREETING", "COLLECTING_NAME", "COLLECTING_EMAIL",
                               "COLLECTING_PHONE", "COLLECTING_ADDRESS",
                               "COLLECTING_ISSUE", "CONFIRMING_DETAILS",
                               "TICKET_CREATION", "CONFIRMATION", "ENDED" })
    => lastOp.result

\* C29: validatePhone accepts an input iff it has between 10 and 15 digits;
\* for exactly 10 digits the sanitized value is the digits regrouped as
\* (AAA) BBB-CCCC, otherwise the trimmed input; validating a sanitized value
\* again yields the same sanitized value
C29_ValidatePhone ==
  lastOp.name = "validatePhone" =>
    LET digits == SelectSeq(lastOp.arg, LAMBDA ch : ch \in Range(DigitChars))
        result == lastOp.result
    IN /\ result.isValid <=> (Len(digits) >= 10 /\ Len(digits) <= 15)
       /\ (result.isValid /\ Len(digits) = 10)
            => result.sanitized =
                 << "(", digits[1], digits[2], digits[3], ")", " ",
                    digits[4], digits[5], digits[6], "-",
                    digits[7], digits[8], digits[9], digits[10] >>
       /\ (result.isValid /\ Len(digits) # 10) => result.sanitized = Trim(lastOp.arg)
       /\ result.isValid
            => /\ validatePhone(result.sanitized).isValid
               /\ validatePhone(result.sanitized).sanitized = result.sanitized

\* A padded number of eleven digits was accepted and trimmed
C29_Witness ==
  /\ lastOp.name = "validatePhone"
  /\ lastOp.result.isValid
  /\ Len(lastOp.result.sanitized) < Len(lastOp.arg)
  /\ Len(DigitsOnly(lastOp.arg)) = 11

\* C30: in the context-update step of a turn in COLLECTING_EMAIL,
\* COLLECTING_PHONE or COLLECTING_ADDRESS, if the utterance yields a value
\* that passes the validator, the field is set to the sanitized value and
\* the state becomes the happy-path successor; otherwise neither the field
\* nor the state changes; the state moves by at most one happy-path edge
C30_ContextUpdate ==
  ( /\ lastOp.name = "updateContextFromUserInput"
    /\ lastOp.arg.context.state
         \in {"COLLECTING_EMAIL", "COLLECTING_PHONE", "COLLECTING_ADDRESS"} ) =>
    LET before == lastOp.arg.context
        after == lastOp.result.context
        userMessage == lastOp.arg.userMessage
        field == CASE before.state = "COLLECTING_EMAIL" -> "email"
                   [] before.state = "COLLECTING_PHONE" -> "phone"
                   [] before.state = "COLLECTING_ADDRESS" -> "address"
        successor == CASE before.state = "COLLECTING_EMAIL" -> "COLLECTING_PHONE"
                       [] before.state = "COLLECTING_PHONE" -> "COLLECTING_ADDRESS"
                       [] before.state = "COLLECTING_ADDRESS" -> "COLLECTING_ISSUE"
        yielded == CASE field = "email" -> extractEmail(userMessage)
                     [] field = "phone" -> extractPhone(userMessage)
                     [] field = "address" -> userMessage
        validation == CASE field = "email" -> validateEmail(yielded)
                        [] field = "phone" -> validatePhone(yielded)
                        [] field = "address" -> validateAddress(yielded)
    IN /\ ~lastOp.result.threw
       /\ IF yielded # Undefined /\ validation.isValid
            THEN after[field] = validation.sanitized /\ after.state = successor
            ELSE after[field] = before[field] /\ after.state = before.state
       /\ after.state \in {before.state, successor}

\* A phone number spoken inside a sentence was stored regrouped and the
\* state moved on to the address
C30_Witness ==
  /\ lastOp.name = "updateContextFromUserInput"
  /\ lastOp.arg.context.state = "COLLECTING_PHONE"
  /\ Len(lastOp.arg.userMessage) > 12
  /\ lastOp.result.context.phone = <<"(","5","1","0",")"," ","5","5","5","-","1","2","3","4">>
  /\ lastOp.result.context.state = "COLLECTING_ADDRESS"

\* C28: when the repository fails while a ticket is being created,
\* create_ticket returns an error and the conversation moves to
\* ERROR_RECOVERY
C28_TicketFailureRecovers ==
  \A c \in Callers :
    ( /\ turn[c].lastTool.name = "create_ticket"
      /\ Dispatch("create_ticket", turn[c].lastTool.arguments, FALSE, Len(tickets) + 1)
           = HandlerThrows(ErrDatabase)
      /\ ~turn[c].lastTool.written ) =>
      /\ turn[c].lastTool.result.success = FALSE
      /\ "error" \in DOMAIN turn[c].lastTool.result
      /\ context.state = "ERROR_RECOVERY"

\* C31: in COLLECTING_ISSUE the state advances to CONFIRMING_DETAILS only
\* when the issue text is valid and the confidence of the classifier is not
\* low, and then issueType and price are those of the classification; with a
\* valid issue text and low confidence issueType and price are left as they
\* were and the state stays COLLECTING_ISSUE
C31_IssueAdvancesOnConfidence ==
  ( /\ lastOp.name = "updateContextFromUserInput"
    /\ lastOp.arg.context.state = "COLLECTING_ISSUE" ) =>
    LET before == lastOp.arg.context
        after == lastOp.result.context
        valid == validateIssue(lastOp.arg.userMessage).isValid
        classification == classify(lastOp.arg.userMessage, getAllServices)
    IN /\ after.state \in {"COLLECTING_ISSUE", "CONFIRMING_DETAILS"}
       /\ after.state = "CONFIRMING_DETAILS" =>
            /\ valid
            /\ classification.confidence # "low"
            /\ after.issueType = classification.issueType
            /\ after.price = classification.price
       /\ (valid /\ lastOp.arg.dbOk /\ classification.confidence # "low") =>
            after.state = "CONFIRMING_DETAILS"
       /\ (valid /\ lastOp.arg.dbOk /\ classification.confidence = "low") =>
            /\ after.issueType = before.issueType
            /\ after.price = before.price
            /\ after.state = "COLLECTING_ISSUE"

\* A narrow win of the classifier moved the state on, with the issue type
\* and the price of the e-mail entry in place of the earlier ones
C31_Witness ==
  /\ lastOp.name = "updateContextFromUserInput"
  /\ lastOp.arg.context.state = "COLLECTING_ISSUE"
  /\ lastOp.arg.context.price = 10
  /\ lastOp.result.context.state = "CONFIRMING_DETAILS"
  /\ lastOp.result.context.price = 15

\* An utterance that denies the details or asks for a correction
Denies(userMessage) ==
  LET lower == ToLower(userMessage)
  IN \/ SubSeq(lower, 1, 2) = <<"n","o">>
     \/ Includes(lower, <<"i","n","c","o","r","r","e","c","t">>)
     \/ Includes(lower, <<"c","o","r","r","e","c","t","i","o","n">>)
     \/ Includes(lower, <<"c","h","a","n","g","e">>)

\* C32: in CONFIRMING_DETAILS the context-update step advances to
\* TICKET_CREATION only on an affirmative confirmation; an utterance that
\* denies the details or asks for a correction leaves the state
\* CONFIRMING_DETAILS
C32_DenialDoesNotConfirm ==
  ( /\ lastOp.name = "updateContextFromUserInput"
    /\ lastOp.arg.context.state = "CONFIRMING_DETAILS" ) =>
    /\ lastOp.result.context.state \in {"CONFIRMING_DETAILS", "TICKET_CREATION"}
    /\ lastOp.result.context.state = "TICKET_CREATION" => IsConfirmation(lastOp.arg.userMessage)
    /\ Denies(lastOp.arg.userMessage) => lastOp.result.context.state = "CONFIRMING_DETAILS"

\* C37: when the caller answers the clarification prompt (COLLECTING_ISSUE,
\* no issue type yet) with an explicit selection of the second option, the
\* issue type becomes email_login_issues
C37_DirectSelectionApplied ==
  ( /\ lastOp.name = "updateContextFromUserInput"
    /\ lastOp.arg.context.state = "COLLECTING_ISSUE"
    /\ lastOp.arg.context.issueType = Undefined
    /\ lastOp.arg.dbOk
    /\ lastOp.arg.userMessage \in { <<"o","p","t","i","o","n"," ","2">>, <<"t","h","e"," ","s","e","c","o","n","d"," ","o","n","e">> } ) =>
    lastOp.result.context.issueType = Svc_email_login_issues.issueType

\* C36: a request that exceeds the timeout is aborted before the retry is
\* issued: at most one request to the language model is outstanding at any
\* moment
C36_OneRequestOutstanding ==
  lastOp.name = "executeRequest" => lastOp.outstanding <= 1

\* C38: a call rejected while the breaker is OPEN is not counted as a
\* failure and does not restart the cooldown: it leaves the state, the
\* failure count and the time of the last failure as they were, so that a
\* call made once resetTimeout has passed since the last failure of an
\* admitted call is admitted as a trial however many calls were rejected
\* before it
C38_RejectionsDoNotCount ==
  /\ [][ breaker'.last.kind = "rejected" =>
           /\ breaker'.state = breaker.state
           /\ breaker'.failureCount = breaker.failureCount
           /\ breaker'.lastFailureTime = breaker.lastFailureTime
           /\ breaker'.successCount = breaker.successCount
           /\ breaker'.run = breaker.run ]_vars
  /\ [][ ( /\ breaker.state = "OPEN"
           /\ breaker.now - breaker.lastFailureTime >= BreakerDefaults.resetTimeout
           /\ breaker'.last # breaker.last ) =>
           (breaker'.last.kind = "admitted" /\ breaker'.state = "HALF_OPEN") ]_vars
  /\ [](breaker.state = "OPEN" =>
          /\ breaker.last.kind \in {"threw", "rejected"}
          /\ breaker.lastFailureTime <= breaker.last.at)

\* With three failures counted and the fourth call rejected, the fifth call
\* is admitted as a trial
C38_Witness ==
  /\ breaker.last.kind = "admitted"
  /\ breaker.last.entry.state = "OPEN"
  /\ breaker.last.entry.failureCount = BreakerDefaults.failureThreshold
  /\ TurnsStarted = 5
  /\ \A i \in DOMAIN conversationHistory : conversationHistory[i].role # "assistant"

\* C34: after any sequence of turns the history sent to the model is the
\* system prompt followed by strictly alternating user and assistant entries
C34_HistoryAlternates ==
  \A c \in Callers :
    turn[c].pc = "llm" =>
      \A i \in DOMAIN conversationHistory :
        conversationHistory[i].role =
          IF i = 1 THEN "system" ELSE IF i % 2 = 0 THEN "user" ELSE "assistant"

\* C39: over a session createTicket succeeds at most once, and the ticket
\* of the context is the one it wrote
C39_OneTicketPerSession ==
  /\ Len(tickets) <= 1
  /\ tickets # <<>> => context.ticketId = TicketId(1)

NamesInOrder(toolCalls) == [ i \in DOMAIN toolCalls |-> toolCalls[i].name ]

\* C33: the tool calls of a reply are executed one at a time in the order
\* returned: each step of the loop takes the first pending call, applies its
\* result to the context the earlier calls left, and no other invocation is
\* executing a tool meanwhile
C33_ToolCallsSequential ==
  [][ \A c \in Callers :
        ( /\ turn[c].pc = "tools"
          /\ turn[c].toolCalls # <<>>
          /\ turn'[c].pc = "tools"
          /\ turn'[c] # turn[c] ) =>
          /\ NamesInOrder(turn'[c].toolCalls) = Tail(NamesInOrder(turn[c].toolCalls))
          /\ turn'[c].lastTool.name = Head(turn[c].toolCalls).name
          /\ context' = handleToolResult(context, Head(turn[c].toolCalls).name,
                                         turn'[c].lastTool.result)
          /\ \A d \in Callers \ {c} : turn[d].pc # "tools" /\ turn'[d].pc # "tools"
    ]_vars

\* The second call of a reply ran on the context the first one left: the
\* address validate_email stored is there when create_ticket stores its ticket
C33_Witness ==
  /\ turn[1].pc = "tools"
  /\ turn[1].toolCalls = <<>>
  /\ turn[1].lastTool # NoTool
  /\ turn[1].lastTool.name = "create_ticket"
  /\ context.email = S_JohnEmail
  /\ context.ticketId = TicketId(1)

\* C35: the result of a failed tool call is in the message history sent to
\* the language model at the latest when the next completion is requested
C35_ToolFailureReported ==
  \A c \in Callers :
    (turn[c].pc = "llm" /\ lastOp.name = "toolFailures") =>
      Len(SelectSeq(conversationHistory, LAMBDA message : message.role = "tool"))
        >= lastOp.failures

====
